---------------------------- MODULE Spec2Model ----------------------------
(***************************************************************************)
(* A model of the text engine of the ZephyrDiff / DTS Diff extension       *)
(* (src/unnamed/part_001, the revision that starts at line 813):           *)
(* stripCommentsFromContent = basicCommentRemoval followed by              *)
(* semanticDtsNormalization / finalizeNode, and the two value normalizers  *)
(* normalizeHexValues and normalizeArrays.                                 *)
(*                                                                         *)
(* A text is a sequence of one-character strings; "\n" is the line feed.   *)
(***************************************************************************)
EXTENDS Integers, Sequences, FiniteSets, TLC

VARIABLES
    pc,          \* "input" | "once" | "twice", or "scan" | "stripped" | "done"
    content,     \* the text (or property line) given to the function
    other,       \* a second document, compared with content
    options,     \* the FilterOptions record
    result,      \* the function applied to content
    otherResult, \* the function applied to other, or a second call's result
    again,       \* the function applied to result
    scanner,     \* the local variables of basicCommentRemoval during its scan
    globals,     \* the module-level state of the extension
    host         \* VS Code's side: timers and events pending, globalState

vars ==
    <<pc, content, other, options, result, otherResult, again, scanner, globals,
      host>>

(***************************************************************************)
(* Strings                                                                 *)
(***************************************************************************)
\* A string literal as a sequence of its characters.
Str(s) == [i \in 1..Len(s) |-> SubSeq(s, i, i)]

\* Every sequence over S of length at most n.
SeqsUpTo(S, n) == UNION {[1..k -> S] : k \in 0..n}

\* What JavaScript's \s and trim() treat as white space (within ASCII).
IsSpace(c) == c \in {" ", "\t", "\n", "\r"}

HexLower == {"0", "1", "2", "3", "4", "5", "6", "7", "8", "9",
             "a", "b", "c", "d", "e", "f"}
HexUpper == {"A", "B", "C", "D", "E", "F"}
IsHexDigit(c) == c \in HexLower \cup HexUpper

\* String.prototype.toLowerCase on one character (hex letters are the only
\* upper-case letters the normalizer lowers).
toLowerCase(c) ==
    CASE c = "A" -> "a" [] c = "B" -> "b" [] c = "C" -> "c"
      [] c = "D" -> "d" [] c = "E" -> "e" [] c = "F" -> "f"
      [] OTHER -> c

LowerAll(s) == [i \in 1..Len(s) |-> toLowerCase(s[i])]

\* The first index >= i of s whose character is not in S (Len(s)+1 if none).
RECURSIVE SkipWhile(_, _, _)
SkipWhile(s, i, S) ==
    IF i <= Len(s) /\ s[i] \in S THEN SkipWhile(s, i + 1, S) ELSE i

\* The first index >= i of s whose character is c (0 if none).
RECURSIVE IndexOf(_, _, _)
IndexOf(s, c, i) ==
    IF i > Len(s) THEN 0
    ELSE IF s[i] = c THEN i ELSE IndexOf(s, c, i + 1)

SpaceChars == {" ", "\t", "\n", "\r"}

trimStart(s) == SubSeq(s, SkipWhile(s, 1, SpaceChars), Len(s))

RECURSIVE trimEnd(_)
trimEnd(s) ==
    IF s # <<>> /\ IsSpace(s[Len(s)]) THEN trimEnd(SubSeq(s, 1, Len(s) - 1))
    ELSE s

trim(s) == trimEnd(trimStart(s))

\* elements.join(sep)
RECURSIVE join(_, _)
join(parts, sep) ==
    IF parts = <<>> THEN <<>>
    ELSE IF Len(parts) = 1 THEN parts[1]
    ELSE parts[1] \o sep \o join(Tail(parts), sep)

\* text.split('\n'): always at least one (possibly empty) line.
RECURSIVE split(_, _)
split(s, c) ==
    LET k == IndexOf(s, c, 1)
    IN  IF k = 0 THEN <<s>>
        ELSE <<SubSeq(s, 1, k - 1)>> \o split(SubSeq(s, k + 1, Len(s)), c)

\* trimmed.split(/\s+/).filter(el => el.length > 0)
RECURSIVE splitWhitespace(_)
splitWhitespace(s) ==
    LET b == SkipWhile(s, 1, SpaceChars)
    IN  IF b > Len(s) THEN <<>>
        ELSE LET e == CHOOSE j \in b..Len(s) :
                          /\ \A k \in b..j : ~IsSpace(s[k])
                          /\ (j = Len(s) \/ IsSpace(s[j + 1]))
             IN  <<SubSeq(s, b, e)>> \o splitWhitespace(SubSeq(s, e + 1, Len(s)))

(***************************************************************************)
(* normalizeHexValues                                                      *)
(***************************************************************************)
\* The replacement callback with no padding.
hexReplacementNoPad(hexPart) == <<"0", "x">> \o LowerAll(hexPart)

\* The replacement callback that pads and keeps the digits' case.
hexReplacementKeepCase(hexPart) ==
    <<"0", "x">> \o (IF Len(hexPart) % 2 = 1 THEN <<"0">> ELSE <<>>) \o hexPart


\* The replacement callback of line.replace(/0x([0-9a-fA-F]+)/g, ...).
hexReplacement(hexPart) ==
    LET normalized == LowerAll(hexPart)
        padded == IF Len(normalized) % 2 = 1 THEN <<"0">> \o normalized
                  ELSE normalized
    IN  <<"0", "x">> \o padded

\* The global replace, scanning from index i: leftmost matches, each with
\* the longest digit run, never overlapping.
RECURSIVE hexReplaceFrom(_, _)
hexReplaceFrom(line, i) ==
    IF i > Len(line) THEN <<>>
    ELSE IF /\ i + 2 <= Len(line)
            /\ line[i] = "0" /\ line[i + 1] = "x"
            /\ IsHexDigit(line[i + 2])
         THEN LET e == SkipWhile(line, i + 2, HexLower \cup HexUpper)
              IN  hexReplacement(SubSeq(line, i + 2, e - 1))
                      \o hexReplaceFrom(line, e)
         ELSE <<line[i]>> \o hexReplaceFrom(line, i + 1)

normalizeHexValues(line) == hexReplaceFrom(line, 1)

(***************************************************************************)
(* normalizeArrays                                                         *)
(***************************************************************************)
\* The callback joining the elements with no space inside the brackets.
angleReplacementTight(captured) ==
    <<"<">> \o join(splitWhitespace(trim(captured)), <<" ">>) \o <<">">>

\* The callback of line.replace(/<\s*([^>]+)\s*>/g, ...).
angleReplacement(captured) ==
    LET elements == splitWhitespace(trim(captured))
    IN  <<"<", " ">> \o join(elements, <<" ">>) \o <<" ", ">">>

\* What ([^>]+) captures of the text between '<' and '>': \s* is greedy, so
\* the leading white space is left out, unless there is nothing else, when
\* \s* gives its last character back.
angleCapture(interior) ==
    LET b == SkipWhile(interior, 1, SpaceChars)
    IN  IF b > Len(interior) THEN SubSeq(interior, Len(interior), Len(interior))
        ELSE SubSeq(interior, b, Len(interior))

\* The first replace of normalizeArrays, scanning from index i. A '<'
\* matches when a '>' follows with at least one character in between.
RECURSIVE angleReplaceFrom(_, _)
angleReplaceFrom(line, i) ==
    IF i > Len(line) THEN <<>>
    ELSE LET j == IF line[i] = "<" THEN IndexOf(line, ">", i + 1) ELSE 0
         IN  IF j >= i + 2
             THEN angleReplacement(angleCapture(SubSeq(line, i + 1, j - 1)))
                      \o angleReplaceFrom(line, j + 1)
             ELSE <<line[i]>> \o angleReplaceFrom(line, i + 1)

\* The loop of the second callback: split on the commas outside quotes.
\* st = [elems, cur, inQuotes] after the characters before index i.
RECURSIVE splitElements(_, _, _)
splitElements(captured, i, st) ==
    IF i > Len(captured)
    THEN IF trim(st.cur) # <<>> THEN Append(st.elems, trim(st.cur))
         ELSE st.elems
    ELSE LET char == captured[i]
         IN  IF char = "\""
             THEN splitElements(captured, i + 1,
                      [st EXCEPT !.inQuotes = ~st.inQuotes,
                                 !.cur = Append(st.cur, char)])
             ELSE IF char = "," /\ ~st.inQuotes
             THEN splitElements(captured, i + 1,
                      [st EXCEPT !.elems = Append(st.elems, trim(st.cur)),
                                 !.cur = <<>>])
             ELSE splitElements(captured, i + 1,
                      [st EXCEPT !.cur = Append(st.cur, char)])

\* The loop splitting on every comma, quoted or not.
RECURSIVE splitElementsAnyComma(_, _, _)
splitElementsAnyComma(captured, i, st) ==
    IF i > Len(captured)
    THEN IF trim(st.cur) # <<>> THEN Append(st.elems, trim(st.cur))
         ELSE st.elems
    ELSE IF captured[i] = ","
         THEN splitElementsAnyComma(captured, i + 1,
                  [st EXCEPT !.elems = Append(st.elems, trim(st.cur)),
                             !.cur = <<>>])
         ELSE splitElementsAnyComma(captured, i + 1,
                  [st EXCEPT !.cur = Append(st.cur, captured[i])])

stringElementsAnyComma(captured) ==
    splitElementsAnyComma(captured, 1,
                          [elems |-> <<>>, cur |-> <<>>, inQuotes |-> FALSE])

\* stringElements as the callback's loop leaves it.
stringElements(captured) ==
    splitElements(captured, 1,
                  [elems |-> <<>>, cur |-> <<>>, inQuotes |-> FALSE])


\* The callback of line.replace(/=\s*("[^"]*"(?:\s*,\s*"[^"]*")*)\s*;/g, ...).
stringListReplacement(captured) ==
    LET elems == stringElements(captured)
    IN  IF Len(elems) > 1
        THEN <<" ", "=", " ">> \o join(elems, <<",", " ">>) \o <<";">>
        ELSE <<" ", "=", " ">> \o trim(captured) \o <<";">>

\* The end of "[^"]*" starting at index q (0 when line[q] is no quote or the
\* string is not closed).
quotedEnd(line, q) ==
    IF q <= Len(line) /\ line[q] = "\"" THEN IndexOf(line, "\"", q + 1) ELSE 0

\* (?:\s*,\s*"[^"]*")* from just after index e: the index of the last
\* closing quote it reaches (greedy; a failed repetition gives nothing back).
RECURSIVE moreQuoted(_, _)
moreQuoted(line, e) ==
    LET c == SkipWhile(line, e + 1, SpaceChars)
        q == IF c <= Len(line) /\ line[c] = ","
             THEN SkipWhile(line, c + 1, SpaceChars) ELSE 0
        f == IF q = 0 THEN 0 ELSE quotedEnd(line, q)
    IN  IF f = 0 THEN e ELSE moreQuoted(line, f)

\* The match of the string-list pattern at an '=' at index i:
\* [from, to] of the captured list and the index of the ';' (0: no match).
stringListMatch(line, i) ==
    LET q == SkipWhile(line, i + 1, SpaceChars)
        f == quotedEnd(line, q)
        e == IF f = 0 THEN 0 ELSE moreQuoted(line, f)
        s == IF e = 0 THEN 0 ELSE SkipWhile(line, e + 1, SpaceChars)
    IN  IF e # 0 /\ s <= Len(line) /\ line[s] = ";"
        THEN [from |-> q, to |-> e, semi |-> s]
        ELSE [from |-> 0, to |-> 0, semi |-> 0]

\* The second replace of normalizeArrays, scanning from index i.
RECURSIVE stringListReplaceFrom(_, _)
stringListReplaceFrom(line, i) ==
    IF i > Len(line) THEN <<>>
    ELSE LET m == IF line[i] = "=" THEN stringListMatch(line, i)
                  ELSE [from |-> 0, to |-> 0, semi |-> 0]
         IN  IF m.semi # 0
             THEN stringListReplacement(SubSeq(line, m.from, m.to))
                      \o stringListReplaceFrom(line, m.semi + 1)
             ELSE <<line[i]>> \o stringListReplaceFrom(line, i + 1)

normalizeArrays(line) ==
    stringListReplaceFrom(angleReplaceFrom(line, 1), 1)

(***************************************************************************)
(* basicCommentRemoval                                                     *)
(***************************************************************************)
\* content[i] of the code: the character at (1-based) index i, or "" past
\* the end (nextChar) and before the start.
CharAt(s, i) == IF i >= 1 /\ i <= Len(s) THEN s[i] ELSE ""

\* n copies of the character c (' '.repeat(n)).
Repeat(c, n) == [k \in 1..n |-> c]

\* The indentation width of a run of blanks and tabs, a tab counting 4.
RECURSIVE RunWidth(_, _, _)
RunWidth(s, from, to) ==
    IF from >= to THEN 0
    ELSE (IF s[from] = "\t" THEN 4 ELSE 1) + RunWidth(s, from + 1, to)

\* The scanner's variables before the first character.
ScanStart ==
    [i |-> 1, result |-> <<>>, inBlockComment |-> FALSE,
     inLineComment |-> FALSE, inString |-> FALSE, stringDelimiter |-> "",
     lineStart |-> TRUE]

\* An iteration that copies the character and stays at it.
ScanStepStuck(text, opts, st) ==
    [st EXCEPT !.result = Append(st.result, text[st.i])]

ScanStepQuoteInComment(text, opts, st) ==
    LET char == text[st.i]
        nextChar == CharAt(text, st.i + 1)
    IN
    IF opts.preserveStringLiterals /\ char \in {"\"", "'"}
    THEN [st EXCEPT !.inString = ~st.inString,
                    !.stringDelimiter = IF st.inString THEN "" ELSE char,
                    !.result = Append(st.result, char),
                    !.i = st.i + 1,
                    !.lineStart = FALSE]
    ELSE IF opts.stripLineComments /\ char = "/" /\ nextChar = "/"
    THEN [st EXCEPT !.inLineComment = TRUE, !.i = st.i + 2]
    ELSE IF st.inLineComment /\ char = "\n"
    THEN [st EXCEPT !.inLineComment = FALSE,
                    !.result = Append(st.result, char),
                    !.i = st.i + 1,
                    !.lineStart = TRUE]
    ELSE IF st.inLineComment
    THEN [st EXCEPT !.i = st.i + 1]
    ELSE [st EXCEPT !.result = Append(st.result, char),
                    !.i = st.i + 1,
                    !.lineStart = FALSE]

\* One iteration of the while loop of basicCommentRemoval, from state st
\* (st.i <= Len(content)).
ScanStep(text, opts, st) ==
    LET i == st.i
        char == text[i]
        nextChar == CharAt(text, i + 1)
        blanks == {" ", "\t"}
    IN
    IF /\ ~st.inBlockComment /\ ~st.inLineComment /\ opts.preserveStringLiterals
       /\ char \in {"\"", "'"}
       /\ (i = 1 \/ text[i - 1] # "\\")
    THEN \* a quote: opens a string, closes the one it opened, or is copied
         [st EXCEPT !.inString = IF ~st.inString THEN TRUE
                                 ELSE IF char = st.stringDelimiter THEN FALSE
                                 ELSE TRUE,
                    !.stringDelimiter = IF ~st.inString THEN char
                                        ELSE IF char = st.stringDelimiter THEN ""
                                        ELSE st.stringDelimiter,
                    !.result = Append(st.result, char),
                    !.i = i + 1,
                    !.lineStart = FALSE]
    ELSE IF /\ ~st.inString /\ ~st.inLineComment /\ opts.stripBlockComments
            /\ char = "/" /\ nextChar = "*"
    THEN [st EXCEPT !.inBlockComment = TRUE, !.i = i + 2]
    ELSE IF ~st.inString /\ st.inBlockComment /\ char = "*" /\ nextChar = "/"
    THEN [st EXCEPT !.inBlockComment = FALSE,
                    !.i = SkipWhile(text, i + 2, blanks)]
    ELSE IF /\ ~st.inString /\ ~st.inBlockComment /\ opts.stripLineComments
            /\ char = "/" /\ nextChar = "/"
    THEN [st EXCEPT !.inLineComment = TRUE, !.i = i + 2]
    ELSE IF ~st.inString /\ st.inLineComment /\ char \in {"\n", "\r"}
    THEN [st EXCEPT !.inLineComment = FALSE,
                    !.result = Append(st.result, char),
                    !.i = i + 1,
                    !.lineStart = TRUE]
    ELSE IF st.inBlockComment \/ st.inLineComment
    THEN [st EXCEPT !.i = i + 1]
    ELSE IF opts.normalizeWhitespace /\ char \in {"\n", "\r"}
    THEN [st EXCEPT !.result = Append(st.result, "\n"),
                    !.i = IF char = "\r" /\ nextChar = "\n" THEN i + 2 ELSE i + 1,
                    !.lineStart = TRUE]
    ELSE IF opts.normalizeWhitespace /\ char \in blanks /\ ~st.lineStart
    THEN LET e == SkipWhile(text, i, blanks)
         IN  [st EXCEPT !.result = IF e <= Len(text) THEN Append(st.result, " ")
                                   ELSE st.result,
                        !.i = e]
    ELSE IF opts.normalizeWhitespace /\ char \in blanks
    THEN LET e == SkipWhile(text, i, blanks)
             indentLevel == RunWidth(text, i, e)
         IN  [st EXCEPT !.result =
                            IF e <= Len(text)
                            THEN st.result
                                     \o Repeat(" ", 4 * (indentLevel \div 4))
                                     \o Repeat(" ", indentLevel % 4)
                            ELSE st.result,
                        !.i = e,
                        !.lineStart = FALSE]
    ELSE [st EXCEPT !.result = Append(st.result, char),
                    !.i = i + 1,
                    !.lineStart = FALSE]

\* At most n iterations of the while loop from state st.  The iterations
\* are split in halves so that the evaluation nests only log(n) deep.
RECURSIVE ScanSteps(_, _, _, _)
ScanSteps(text, opts, st, n) ==
    IF n = 0 \/ st.i > Len(text) THEN st
    ELSE IF n = 1 THEN ScanStep(text, opts, st)
    ELSE ScanSteps(text, opts, ScanSteps(text, opts, st, n \div 2),
                   n - (n \div 2))

\* The while loop run to the end of the text: every iteration consumes at
\* least one character, so Len(text) iterations reach the end.
ScanFrom(text, opts, st) == ScanSteps(text, opts, st, Len(text))

\* .filter(...): an empty line stays when it is the first or the last line
\* or when the line before or after it is not empty.
FilterBlankLines(arr) ==
    LET keep == {k \in 1..Len(arr) :
                    \/ Len(arr[k]) > 0
                    \/ k = 1 \/ k = Len(arr)
                    \/ Len(arr[k - 1]) > 0 \/ Len(arr[k + 1]) > 0}
        nth(n) == CHOOSE k \in keep : Cardinality({j \in keep : j < k}) = n - 1
    IN  [n \in 1..Cardinality(keep) |-> arr[nth(n)]]

\* .replace(/\n{3,}/g, '\n\n'): of every run of line feeds the first two
\* stay.
CollapseNewlines(s) ==
    LET kept == SelectSeq([k \in 1..Len(s) |-> k],
                          LAMBDA k : ~(/\ k >= 3 /\ s[k] = "\n"
                                       /\ s[k - 1] = "\n" /\ s[k - 2] = "\n"))
    IN  [n \in 1..Len(kept) |-> s[kept[n]]]

CleanUpFilterOnly(scanned) ==
    LET lines == split(scanned, "\n")
        trimmedLines == [k \in 1..Len(lines) |-> trimEnd(lines[k])]
    IN  join(FilterBlankLines(trimmedLines), <<"\n">>)

\* The clean-up of the scanner's result.
CleanUp(scanned) ==
    LET lines == split(scanned, "\n")
        trimmedLines == [k \in 1..Len(lines) |-> trimEnd(lines[k])]
    IN  CollapseNewlines(join(FilterBlankLines(trimmedLines), <<"\n">>))

basicCommentRemoval(text, opts) ==
    CleanUp(ScanFrom(text, opts, ScanStart).result)

(***************************************************************************)
(* String.prototype.localeCompare and Array.prototype.sort                 *)
(***************************************************************************)
LowerLetters == Str("abcdefghijklmnopqrstuvwxyz")
UpperLetters == Str("ABCDEFGHIJKLMNOPQRSTUVWXYZ")
Digits == Str("0123456789")

\* The characters that are no letters, in collation order (white space,
\* punctuation, symbols, digits), as the root collation orders them.
CollationOrder == Str("\t\n\r _-,;:!?.'\"()[]{}@*/\\&#%^+<=>|~$0123456789")

PositionIn(seq, c) ==
    IF \E k \in 1..Len(seq) : seq[k] = c
    THEN CHOOSE k \in 1..Len(seq) : seq[k] = c
    ELSE 0

\* The primary weight of a character: letters after everything else, upper
\* and lower case alike.
PrimaryWeight(c) ==
    IF PositionIn(LowerLetters, c) # 0
    THEN Len(CollationOrder) + PositionIn(LowerLetters, c)
    ELSE IF PositionIn(UpperLetters, c) # 0
    THEN Len(CollationOrder) + PositionIn(UpperLetters, c)
    ELSE PositionIn(CollationOrder, c)

\* The case weight: lower case before upper case.
CaseWeight(c) == IF PositionIn(UpperLetters, c) # 0 THEN 1 ELSE 0

\* Lexicographic comparison of two sequences of weights: -1, 0 or 1.
RECURSIVE CompareWeights(_, _, _)
CompareWeights(a, b, k) ==
    IF k > Len(a) /\ k > Len(b) THEN 0
    ELSE IF k > Len(a) THEN -1
    ELSE IF k > Len(b) THEN 1
    ELSE IF a[k] < b[k] THEN -1
    ELSE IF a[k] > b[k] THEN 1
    ELSE CompareWeights(a, b, k + 1)

\* a.localeCompare(b): by primary weights first, by case on a tie.
localeCompare(a, b) ==
    LET primary == CompareWeights([k \in 1..Len(a) |-> PrimaryWeight(a[k])],
                                  [k \in 1..Len(b) |-> PrimaryWeight(b[k])], 1)
    IN  IF primary # 0 THEN primary
        ELSE CompareWeights([k \in 1..Len(a) |-> CaseWeight(a[k])],
                            [k \in 1..Len(b) |-> CaseWeight(b[k])], 1)

\* item put into the sorted sequence after every element that is not
\* greater than it.
RECURSIVE InsertSorted(_, _)
InsertSorted(sorted, item) ==
    IF sorted = <<>> THEN <<item>>
    ELSE IF localeCompare(sorted[Len(sorted)].sortKey, item.sortKey) <= 0
         THEN Append(sorted, item)
         ELSE Append(InsertSorted(SubSeq(sorted, 1, Len(sorted) - 1), item),
                     sorted[Len(sorted)])

\* A sort that puts equal keys in reverse order.
RECURSIVE sortBySortKeyUnstable(_)
sortBySortKeyUnstable(records) ==
    IF records = <<>> THEN <<>>
    ELSE InsertSorted(sortBySortKeyUnstable(Tail(records)), Head(records))

\* records.sort((a, b) => a.sortKey.localeCompare(b.sortKey)): a stable sort.
RECURSIVE sortBySortKey(_)
sortBySortKey(records) ==
    IF records = <<>> THEN <<>>
    ELSE InsertSorted(sortBySortKey(SubSeq(records, 1, Len(records) - 1)),
                      records[Len(records)])

(***************************************************************************)
(* semanticDtsNormalization and finalizeNode                               *)
(***************************************************************************)
\* The recursion ceiling of finalizeNode.
RecursionCeiling == 5

Letters == {LowerLetters[k] : k \in 1..26} \cup {UpperLetters[k] : k \in 1..26}
DigitChars == {Digits[k] : k \in 1..10}

\* [a-zA-Z0-9_-]
NameChars == Letters \cup DigitChars \cup {"_", "-"}

\* [a-zA-Z0-9_@]
KeyChars == Letters \cup DigitChars \cup {"_", "@"}

\* trimmed.match(/^[a-zA-Z0-9_-]+(@[0-9a-fA-F]+)?\s*\{/)
MatchesPlainOpener(t) ==
    LET a == SkipWhile(t, 1, NameChars)
        h == IF CharAt(t, a) = "@"
             THEN SkipWhile(t, a + 1, HexLower \cup HexUpper) ELSE a
        p == IF h > a + 1 THEN h ELSE a
    IN  a > 1 /\ CharAt(t, SkipWhile(t, p, SpaceChars)) = "{"

\* trimmed.match(/^[a-zA-Z0-9_-]+\s*:\s*.+\{/)
MatchesLabelOpener(t) ==
    LET a == SkipWhile(t, 1, NameChars)
        c == SkipWhile(t, a, SpaceChars)
    IN  /\ a > 1
        /\ CharAt(t, c) = ":"
        /\ \E k \in (c + 1)..Len(t) : \E j \in (k + 1)..Len(t) :
              /\ t[j] = "{"
              /\ \A x \in (c + 1)..(k - 1) : IsSpace(t[x])
              /\ \A x \in k..(j - 1) : t[x] \notin {"\n", "\r"}

\* The test that makes a line a node declaration.
IsNodeOpener(line) ==
    LET trimmed == trim(line)
    IN  MatchesPlainOpener(trimmed) \/ MatchesLabelOpener(trimmed)

\* The sort key of a node: /^\s*([a-zA-Z0-9_-]+)\s*:/, else
\* /^\s*([a-zA-Z0-9_@]+)(?=\s*\{)/, else 'zzz_unknown'.
nodeSortKey(nodeDeclaration) ==
    LET s == SkipWhile(nodeDeclaration, 1, SpaceChars)
        a == SkipWhile(nodeDeclaration, s, NameChars)
        b == SkipWhile(nodeDeclaration, s, KeyChars)
    IN  IF a > s /\ CharAt(nodeDeclaration,
                           SkipWhile(nodeDeclaration, a, SpaceChars)) = ":"
        THEN SubSeq(nodeDeclaration, s, a - 1)
        ELSE IF b > s /\ CharAt(nodeDeclaration,
                                SkipWhile(nodeDeclaration, b, SpaceChars)) = "{"
        THEN SubSeq(nodeDeclaration, s, b - 1)
        ELSE Str("zzz_unknown")

\* (line.match(/c/g) || []).length
CountChar(line, c) == Cardinality({k \in 1..Len(line) : line[k] = c})

BraceDelta(line) == CountChar(line, "{") - CountChar(line, "}")

\* The do-while that extracts a node starting at lines[i]: the index after
\* its last line. It stops when the brace count is back to 0 (or below) or the
\* lines are used up.
RECURSIVE NodeEnd(_, _, _)
NodeEnd(lines, i, braceCount) ==
    LET count == braceCount + BraceDelta(lines[i])
    IN  IF count > 0 /\ i + 1 <= Len(lines) THEN NodeEnd(lines, i + 1, count)
        ELSE i + 1

\* The while loop of finalizeNode that separates child nodes from property
\* lines, from contentLines[i] on: acc = [childNodes, propertyLines].
RECURSIVE ClassifyContent(_, _, _)
ClassifyContent(contentLines, i, acc) ==
    IF i > Len(contentLines) THEN acc
    ELSE IF trim(contentLines[i]) = <<>>
    THEN ClassifyContent(contentLines, i + 1, acc)
    ELSE IF IsNodeOpener(contentLines[i])
    THEN LET e == NodeEnd(contentLines, i, 0)
         IN  ClassifyContent(contentLines, e,
                 [acc EXCEPT !.childNodes =
                                 Append(@, SubSeq(contentLines, i, e - 1))])
    ELSE ClassifyContent(contentLines, i + 1,
             [acc EXCEPT !.propertyLines = Append(@, contentLines[i])])

EndsWith(s, c) == s # <<>> /\ s[Len(s)] = c

\* The loop that merges multi-line properties, from propertyLines[i] on:
\* acc = [merged, current].
RECURSIVE MergeFrom(_, _, _)
MergeFrom(propertyLines, i, acc) ==
    IF i > Len(propertyLines)
    THEN IF trim(acc.current) # <<>> THEN Append(acc.merged, acc.current)
         ELSE acc.merged
    ELSE LET trimmed == trim(propertyLines[i])
             joined == acc.current
                           \o (IF acc.current # <<>> THEN <<" ">> ELSE <<>>)
                           \o trimmed
             nextLine == trim(propertyLines[i + 1])
         IN  IF trimmed = <<>> THEN MergeFrom(propertyLines, i + 1, acc)
             ELSE IF ~EndsWith(trimmed, ";") /\ ~EndsWith(trimmed, ",")
             THEN MergeFrom(propertyLines, i + 1, [acc EXCEPT !.current = joined])
             ELSE IF /\ EndsWith(trimmed, ",") /\ i + 1 <= Len(propertyLines)
                     /\ (CharAt(nextLine, 1) = "\"" \/ IndexOf(nextLine, "=", 1) = 0)
             THEN MergeFrom(propertyLines, i + 1, [acc EXCEPT !.current = joined])
             ELSE MergeFrom(propertyLines, i + 1,
                      [merged |-> Append(acc.merged, joined), current |-> <<>>])

mergePropertiesAtEveryComma(propertyLines) ==
    LET lastOf == [k \in 1..Len(propertyLines) |->
                      LET t == trim(propertyLines[k])
                      IN  t[Len(t)]]
        closes(k) == k = Len(propertyLines) \/ lastOf[k] \in {";", ","}
        ends == {k \in 1..Len(propertyLines) : closes(k)}
        endOf(n) == CHOOSE e \in ends :
                        Cardinality({j \in ends : j <= e}) = n
        startOf(n) == IF n = 1 THEN 1 ELSE endOf(n - 1) + 1
    IN  [n \in 1..Cardinality(ends) |->
            join([k \in 1..(endOf(n) - startOf(n) + 1) |->
                     trim(propertyLines[startOf(n) + k - 1])], <<" ">>)]

mergeProperties(propertyLines) ==
    MergeFrom(propertyLines, 1, [merged |-> <<>>, current |-> <<>>])

\* propertyText.match(/^([^=;:]+)[:=]?/): the text before the first '=', ';'
\* or ':', trimmed; the whole text when it starts with one of them.
propertySortKey(propertyText) ==
    LET e == SkipWhile(propertyText, 1,
                       {propertyText[k] : k \in 1..Len(propertyText)}
                           \ {"=", ";", ":"})
    IN  IF e > 1 THEN trim(SubSeq(propertyText, 1, e - 1)) ELSE propertyText

\* The record finalizeNode makes of one merged property.
propertyRecord(propertyText, opts) ==
    LET afterHex == IF opts.normalizeHexValues
                    THEN normalizeHexValues(propertyText) ELSE propertyText
        afterArrays == IF opts.normalizeArrays
                       THEN normalizeArrays(afterHex) ELSE afterHex
    IN  [original |-> propertyText, normalized |-> afterArrays,
         sortKey |-> propertySortKey(propertyText)]

\* The loop over mergedProperties: closing braces and empty texts are skipped.
RECURSIVE propertyRecords(_, _)
propertyRecords(mergedProperties, opts) ==
    IF mergedProperties = <<>> THEN <<>>
    ELSE LET cleanText == trim(Head(mergedProperties))
             rest == propertyRecords(Tail(mergedProperties), opts)
         IN  IF cleanText \in {<<>>, Str("}"), Str("};")} THEN rest
             ELSE <<propertyRecord(Head(mergedProperties), opts)>> \o rest

\* The properties of a node as finalizeNode emits them.
sortedProperties(propertyLines, opts) ==
    LET properties == propertyRecords(mergeProperties(propertyLines), opts)
    IN  IF opts.sortProperties THEN sortBySortKey(properties) ELSE properties

\* The concatenation of the line blocks of the records.
RECURSIVE FlattenLines(_)
FlattenLines(nodes) ==
    IF nodes = <<>> THEN <<>>
    ELSE Head(nodes).lines \o FlattenLines(Tail(nodes))

\* firstLine.match(/^(\s*)/)[1]: the white space a line begins with.
firstLineIndent(firstLine) ==
    SubSeq(firstLine, 1, SkipWhile(firstLine, 1, SpaceChars) - 1)

propertyIndentOfDepthZero(firstLine) == Str("    ")

\* The indentation of the properties of a node: four blanks more than its
\* declaration line.
propertyIndent(firstLine) == firstLineIndent(firstLine) \o Str("    ")

\* Variants of the test of the first line of finalizeNode: without the
\* ceiling on the depth, and taken on the content lines of the node.
returnsUnchangedAtNoDepth(nodeLines, depth) == Len(nodeLines) < 2

returnsUnchangedByContent(nodeLines, depth) ==
    Len(nodeLines) - 2 < 2 \/ depth > RecursionCeiling

\* The test of the first line of finalizeNode.
returnsUnchanged(nodeLines, depth) ==
    Len(nodeLines) < 2 \/ depth > RecursionCeiling

RECURSIVE finalizeNode(_, _, _)
finalizeNode(nodeLines, opts, depth) ==
    IF returnsUnchanged(nodeLines, depth) THEN nodeLines
    ELSE
    LET firstLine == nodeLines[1]
        lastLine == nodeLines[Len(nodeLines)]
        contentLines == SubSeq(nodeLines, 2, Len(nodeLines) - 1)
        parts == ClassifyContent(contentLines, 1,
                     [childNodes |-> <<>>, propertyLines |-> <<>>])
        properties == sortedProperties(parts.propertyLines, opts)
        processedChildNodes ==
            [k \in 1..Len(parts.childNodes) |->
                [lines |-> finalizeNode(parts.childNodes[k], opts, depth + 1),
                 sortKey |-> nodeSortKey(parts.childNodes[k][1])]]
        sortedChildNodes ==
            IF opts.sortProperties /\ Len(processedChildNodes) > 1
            THEN sortBySortKey(processedChildNodes)
            ELSE processedChildNodes
    IN  <<firstLine>>
            \o [k \in 1..Len(properties) |->
                    propertyIndent(firstLine) \o trim(properties[k].normalized)]
            \o FlattenLines(sortedChildNodes)
            \o <<lastLine>>

\* The while loop of semanticDtsNormalization over the top-level lines, from
\* lines[i] on: acc = [topLevelNodes, nonNodeLines]. Line numbers count from 1.
RECURSIVE TopLevelScan(_, _, _)
TopLevelScan(lines, i, acc) ==
    IF i > Len(lines) THEN acc
    ELSE IF IsNodeOpener(lines[i])
    THEN LET e == NodeEnd(lines, i, 0)
         IN  TopLevelScan(lines, e,
                 [acc EXCEPT !.topLevelNodes =
                     Append(@, [lines |-> SubSeq(lines, i, e - 1),
                                sortKey |-> nodeSortKey(lines[i]),
                                startLine |-> i])])
    ELSE TopLevelScan(lines, i + 1,
             [acc EXCEPT !.nonNodeLines =
                 Append(@, [line |-> lines[i], lineNumber |-> i])])

\* nonNodeLines.filter(item => lo < item.lineNumber < hi).map(item => item.line)
RECURSIVE LinesBetween(_, _, _)
LinesBetween(nonNodeLines, lo, hi) ==
    IF nonNodeLines = <<>> THEN <<>>
    ELSE (IF Head(nonNodeLines).lineNumber > lo /\ Head(nonNodeLines).lineNumber < hi
          THEN <<Head(nonNodeLines).line>> ELSE <<>>)
             \o LinesBetween(Tail(nonNodeLines), lo, hi)

\* The lines the forEach over the sorted top-level nodes pushes from node idx on.
RECURSIVE EmitNodes(_, _, _, _)
EmitNodes(nodes, nonNodeLines, opts, idx) ==
    IF idx > Len(nodes) THEN <<>>
    ELSE LET node == nodes[idx]
             currentNodeEndLine == node.startLine + Len(node.lines) - 1
         IN  finalizeNode(node.lines, opts, 0)
                 \o (IF idx < Len(nodes)
                     THEN LinesBetween(nonNodeLines, currentNodeEndLine,
                                       nodes[idx + 1].startLine)
                     ELSE <<>>)
                 \o EmitNodes(nodes, nonNodeLines, opts, idx + 1)

\* The lines of the normalized document.
normalizedLines(lines, opts) ==
    LET scanned == TopLevelScan(lines, 1,
                       [topLevelNodes |-> <<>>, nonNodeLines |-> <<>>])
        nonNodeLines == scanned.nonNodeLines
        topLevelNodes ==
            IF opts.sortProperties /\ Len(scanned.topLevelNodes) > 1
            THEN sortBySortKey(scanned.topLevelNodes)
            ELSE scanned.topLevelNodes
        n == Len(topLevelNodes)
        firstNodeLine ==
            IF n > 0
            THEN CHOOSE m \in {topLevelNodes[k].startLine : k \in 1..n} :
                     \A k \in 1..n : m <= topLevelNodes[k].startLine
            ELSE Len(lines) + 1
        lastNodeEndLine ==
            topLevelNodes[n].startLine + Len(topLevelNodes[n].lines) - 1
    IN  LinesBetween(nonNodeLines, 0, firstNodeLine)
            \o EmitNodes(topLevelNodes, nonNodeLines, opts, 1)
            \o (IF n > 0
                THEN LinesBetween(nonNodeLines, lastNodeEndLine, Len(lines) + 1)
                ELSE <<>>)

semanticDtsNormalization(text, opts) ==
    IF ~opts.sortProperties THEN text
    ELSE join(normalizedLines(split(text, "\n"), opts), <<"\n">>)

\* The entry point with the node normalizer run whatever the options say.
stripCommentsFromContentUngated(text, opts) ==
    join(normalizedLines(split(basicCommentRemoval(text, opts), "\n"), opts),
         <<"\n">>)

stripCommentsFromContentDefaults(text, opts) ==
    LET stripped == basicCommentRemoval(text, globals.defaultOptions)
    IN  IF globals.defaultOptions.semanticComparison
        THEN semanticDtsNormalization(stripped, globals.defaultOptions)
        ELSE stripped

stripCommentsFromContent(text, opts) ==
    LET stripped == basicCommentRemoval(text, opts)
    IN  IF opts.semanticComparison
        THEN semanticDtsNormalization(stripped, opts)
        ELSE stripped

(***************************************************************************)
(* FilterOptions                                                           *)
(***************************************************************************)
\* defaultOptions of activate().
DefaultOptions ==
    [stripLineComments |-> TRUE, stripBlockComments |-> TRUE,
     preserveStringLiterals |-> TRUE, normalizeWhitespace |-> TRUE,
     semanticComparison |-> TRUE, normalizeHexValues |-> TRUE,
     normalizeArrays |-> TRUE, sortProperties |-> TRUE]

\* The module-level state when the extension is loaded: no saved
\* configuration, no watcher, and the default options of activate().
GlobalsAtLoad ==
    [savedConfigurations |-> <<>>, activeWatchers |-> {},
     defaultOptions |-> DefaultOptions]

\* VS Code's side when the extension is loaded: no refresh timer pending, no
\* call suspended at an await, nothing stored under 'advancedOptions', no
\* quick pick.  Date.now() is counted from 0.
HostAtLoad ==
    [now |-> 0, timers |-> {}, saving |-> {}, lastRefreshed |-> 0,
     advancedOptions |-> {}, quickPick |-> "none", events |-> {},
     promise |-> "none", currentOptions |-> {}, newOptions |-> {}]

(***************************************************************************)
(* The value normalizers applied to single property lines                  *)
(***************************************************************************)
MaxHexLen == 5
MaxInterior == 4
MaxElems == 2

HexAlphabet == {"0", "x", "1", "A", " "}

HexExamples ==
    {Str("0x2F"), Str("0x1"), Str("0xAB0"), Str("reg = <0x938C00 0x200>;")}

HexInputs == SeqsUpTo(HexAlphabet, MaxHexLen) \cup HexExamples

InitHex ==
    /\ pc = "input"
    /\ content \in HexInputs
    /\ other = <<>>
    /\ options = DefaultOptions
    /\ result = <<>>
    /\ otherResult = <<>>
    /\ again = <<>>
    /\ scanner = ScanStart
    /\ globals = GlobalsAtLoad
    /\ host = HostAtLoad

HexOnce ==
    /\ pc = "input"
    /\ result' = normalizeHexValues(content)
    /\ pc' = "once"
    /\ UNCHANGED <<content, other, options, otherResult, again, scanner,
                   globals, host>>

HexTwice ==
    /\ pc = "once"
    /\ again' = normalizeHexValues(result)
    /\ pc' = "twice"
    /\ UNCHANGED <<content, other, options, result, otherResult, scanner,
                   globals, host>>

NextHex == HexOnce \/ HexTwice

SpecHex == InitHex /\ [][NextHex]_vars

\* '<' interior '>' spans with every spacing of up to MaxInterior characters,
\* alone, inside a property, and followed by a second span.
ArrayInputs ==
    {pre \o <<"<">> \o interior \o <<">">> \o post :
        pre \in {<<>>, Str("r = ")},
        interior \in SeqsUpTo({" ", "\t", "a", "1"}, MaxInterior),
        post \in {<<>>, Str(";"), Str(" <1\t 2>;")}}

ArrayExamples ==
    {Str("reg = <0x1   0x2>;"), Str("<a"), Str("a>"), Str("<<a>"),
     Str("compatible = \"a\", \"b\";"),
     Str("compatible=\"nordic,nrf-gpio\";"),
     Str("x = \"vendor,part\";")}

ElemContents ==
    {<<>>, Str("a"), Str(","), Str("a,b"), Str(" a "), Str(", ")}

Quoted(c) == <<"\"">> \o c \o <<"\"">>

\* key = "e1" sep "e2" ... ; with up to MaxElems quoted elements.
StringListInputs ==
    {Str("c") \o eq \o join([i \in 1..Len(es) |-> Quoted(es[i])], sep) \o semi :
        eq \in {Str("="), Str(" = "), Str("=\t")},
        es \in UNION {[1..k -> ElemContents] : k \in 1..MaxElems},
        sep \in {Str(","), Str(", "), Str(" ,\t")},
        semi \in {Str(";"), Str(" ;")}}

InitArrays ==
    /\ pc = "input"
    /\ content \in ArrayInputs \cup ArrayExamples \cup StringListInputs
    /\ other = <<>>
    /\ options = DefaultOptions
    /\ result = <<>>
    /\ otherResult = <<>>
    /\ again = <<>>
    /\ scanner = ScanStart
    /\ globals = GlobalsAtLoad
    /\ host = HostAtLoad

ArraysOnce ==
    /\ pc = "input"
    /\ result' = normalizeArrays(content)
    /\ pc' = "once"
    /\ UNCHANGED <<content, other, options, otherResult, again, scanner,
                   globals, host>>

ArraysTwice ==
    /\ pc = "once"
    /\ again' = normalizeArrays(result)
    /\ pc' = "twice"
    /\ UNCHANGED <<content, other, options, result, otherResult, scanner,
                   globals, host>>

NextArrays == ArraysOnce \/ ArraysTwice

SpecArrays == InitArrays /\ [][NextArrays]_vars

(***************************************************************************)
(* Whole documents given to stripCommentsFromContent                       *)
(***************************************************************************)
MaxBlocks == 3

\* One-line top-level entries: two nodes, two nodes with a hyphen in the
\* name, an empty line and a reference node (which no opener pattern
\* matches).
TopBlocks ==
    {<<Str("b { };")>>, <<Str("a { };")>>, <<Str("x-b { };")>>,
     <<Str("x-a { };")>>, <<<<>>>>, <<Str("&u { };")>>}

\* The lines of the blocks, in order.
RECURSIVE FlattenBlocks(_)
FlattenBlocks(blocks) ==
    IF blocks = <<>> THEN <<>>
    ELSE Head(blocks) \o FlattenBlocks(Tail(blocks))

\* The document made of the blocks.
Doc(blocks) == join(FlattenBlocks(blocks), <<"\n">>)

\* blocks with the entries j and j + 1 exchanged (unchanged when there are
\* no such entries).
SwapAt(blocks, j) ==
    [n \in 1..Len(blocks) |->
        IF j >= 1 /\ j < Len(blocks) /\ n = j THEN blocks[j + 1]
        ELSE IF j >= 1 /\ j < Len(blocks) /\ n = j + 1 THEN blocks[j]
        ELSE blocks[n]]

\* A node n with the given content lines.
NodeOf(name, contentLines) ==
    <<Str(name) \o Str(" {")>> \o contentLines \o <<Str("};")>>

\* Pairs of documents that differ by the order of siblings only: the blocks of
\* a document with two neighbours exchanged, and nodes with their content
\* lines in two orders.
DocPairs ==
    {<<Doc(blocks), Doc(SwapAt(blocks, j))>> :
        blocks \in SeqsUpTo(TopBlocks, MaxBlocks), j \in 0..(MaxBlocks - 1)}
    \cup
    {<<Doc(<<NodeOf("n", c)>>), Doc(<<NodeOf("n", SwapAt(c, 1))>>)>> :
        c \in {<<Str(" x-b { };"), Str(" x-a { };")>>,
               <<Str(" m@2 {"), Str(" };"), Str(" m@1 {"), Str(" };")>>,
               <<Str(" b = <0x1F>;"), Str(" a;")>>,
               <<Str(" c = \"x\", \"y\";"), Str(" // c"), Str(" a /* b */ ;")>>}}
    \cup
    {<<Doc(blocks), Doc(blocks)>> :
        blocks \in {<<<<Str("a { };")>>, <<<<>>>>, <<Str("x-a { };")>>,
                      <<<<>>>>, <<Str("b { };")>>>>,
                    <<<<Str("a { };")>>, <<Str("&u { };")>>, <<Str("c { };")>>,
                      <<Str("&v { };")>>, <<Str("b { };")>>>>,
                    <<NodeOf("a", <<Str(" b.c {"), Str("  x;"), Str(" };")>>)>>,
                    <<<<Str("/ {")>>,
                      NodeOf(" soc", <<Str("  r = <1>;")>>),
                      NodeOf(" cpus", <<>>),
                      <<Str("};")>>>>}}

\* The option records the documents are processed with.
OptionSets ==
    {DefaultOptions,
     [DefaultOptions EXCEPT !.normalizeWhitespace = FALSE],
     [DefaultOptions EXCEPT !.sortProperties = FALSE],
     [DefaultOptions EXCEPT !.semanticComparison = FALSE],
     [DefaultOptions EXCEPT !.sortProperties = FALSE,
                            !.normalizeHexValues = FALSE,
                            !.normalizeArrays = FALSE],
     [DefaultOptions EXCEPT !.normalizeHexValues = FALSE,
                            !.normalizeArrays = FALSE]}

Init ==
    /\ pc = "input"
    /\ \E pair \in DocPairs : content = pair[1] /\ other = pair[2]
    /\ options \in OptionSets
    /\ result = <<>>
    /\ otherResult = <<>>
    /\ again = <<>>
    /\ scanner = ScanStart
    /\ globals = GlobalsAtLoad
    /\ host = HostAtLoad

\* Both documents are processed.
Process ==
    /\ pc = "input"
    /\ result' = stripCommentsFromContent(content, options)
    /\ otherResult' = stripCommentsFromContent(other, options)
    /\ pc' = "once"
    /\ UNCHANGED <<content, other, options, again, scanner, globals, host>>

\* The output is processed again.
ProcessAgain ==
    /\ pc = "once"
    /\ again' = stripCommentsFromContent(result, options)
    /\ pc' = "twice"
    /\ UNCHANGED <<content, other, options, result, otherResult, scanner,
                   globals, host>>

Next == Process \/ ProcessAgain

Spec == Init /\ [][Next]_vars

(***************************************************************************)
(* Single nodes given to finalizeNode                                      *)
(***************************************************************************)
MaxProps == 3

\* Property lines: two with the key a, keys that differ by case only, a value
\* the normalizers change and a line that ends with a comma.
PropLines ==
    {Str(" b = <0x1>;"), Str(" a;"), Str(" a = <2>;"), Str(" B;"),
     Str(" c = \"x\",")}

\* Nodes of up to MaxProps property lines, and a node on one line.
NodeInputs ==
    {NodeOf("n", props) : props \in SeqsUpTo(PropLines, MaxProps)}
        \cup {<<Str("n { };")>>}

\* finalizeNode runs with sortProperties on only.
NodeOptionSets ==
    {DefaultOptions,
     [DefaultOptions EXCEPT !.normalizeHexValues = FALSE,
                            !.normalizeArrays = FALSE]}

InitNode ==
    /\ pc = "input"
    /\ content \in NodeInputs
    /\ other = <<>>
    /\ options \in NodeOptionSets
    /\ result = <<>>
    /\ otherResult = <<>>
    /\ again = <<>>
    /\ scanner = ScanStart
    /\ globals = GlobalsAtLoad
    /\ host = HostAtLoad

FinalizeOnce ==
    /\ pc = "input"
    /\ result' = finalizeNode(content, options, 0)
    /\ pc' = "once"
    /\ UNCHANGED <<content, other, options, otherResult, again, scanner,
                   globals, host>>

FinalizeTwice ==
    /\ pc = "once"
    /\ again' = finalizeNode(result, options, 0)
    /\ pc' = "twice"
    /\ UNCHANGED <<content, other, options, result, otherResult, scanner,
                   globals, host>>

NextNode == FinalizeOnce \/ FinalizeTwice

SpecNode == InitNode /\ [][NextNode]_vars

(***************************************************************************)
(* The character scan of basicCommentRemoval, one iteration at a time      *)
(***************************************************************************)
MaxText == 4

\* A quote, the characters of the comment markers, a line feed, a blank and
\* an ordinary character.
ScanAlphabet == {"\"", "/", "*", "\n", " ", "a"}

\* Texts with an apostrophe, a backslash, a tab, a carriage return, and the
\* example of a URL in a string.
ScanExamples ==
    {Str("x = \"http://example.com\";"),
     Str("x = \"a  //b\"; // c"),
     Str("'/*' /* \"c */ d"),
     Str("\"a\\\"//b\" //c"),
     Str("\"\\\\\" //c"),
     Str("\"it's\" /*c*/"),
     Str("\ta\t \tb\r\n  \t c // d\r\n\n\n\ne /* f"),
     Str("a /* b\n c */  d // e")}

ScanTexts == SeqsUpTo(ScanAlphabet, MaxText) \cup ScanExamples

\* The four options basicCommentRemoval reads: all on, and each one off.
ScanOptionSets ==
    {DefaultOptions,
     [DefaultOptions EXCEPT !.stripLineComments = FALSE],
     [DefaultOptions EXCEPT !.stripBlockComments = FALSE],
     [DefaultOptions EXCEPT !.preserveStringLiterals = FALSE],
     [DefaultOptions EXCEPT !.normalizeWhitespace = FALSE]}

InitScan ==
    /\ pc = "scan"
    /\ content \in ScanTexts
    /\ other = <<>>
    /\ options \in ScanOptionSets
    /\ result = <<>>
    /\ otherResult = <<>>
    /\ again = <<>>
    /\ scanner = ScanStart
    /\ globals = GlobalsAtLoad
    /\ host = HostAtLoad

\* One iteration of while (i < content.length).
ScanIteration ==
    /\ pc = "scan"
    /\ scanner.i <= Len(content)
    /\ scanner' = ScanStep(content, options, scanner)
    /\ UNCHANGED <<pc, content, other, options, result, otherResult, again,
                   globals, host>>

\* The loop is left and the cleaned-up result is returned.
ScanReturn ==
    /\ pc = "scan"
    /\ scanner.i > Len(content)
    /\ result' = CleanUp(scanner.result)
    /\ pc' = "done"
    /\ UNCHANGED <<content, other, options, otherResult, again, scanner,
                   globals, host>>

NextScan == ScanIteration \/ ScanReturn

SpecScan == InitScan /\ [][NextScan]_vars

(***************************************************************************)
(* A whole run of stripCommentsFromContent on malformed documents          *)
(***************************************************************************)
MaxRunLines == 3

\* Lines that open a node, close one, hold a property, and open a comment
\* that is not closed.
RunLines == {Str("a {"), Str("};"), Str("x;"), Str("/* c")}

\* Eight nodes inside each other, and a string that is not closed.
RunExamples ==
    {Str("a {\nb {\nc {\nd {\ne {\nf {\ng {\nh {\ny;\nx;\n};\n};\n};\n};\n};\n};\n};\n};"),
     Str("a {\n y = \"b;\n x;\n};"),
     Str("}\na { {\n y;\n x; } } }\nb {")}

RunTexts ==
    {join(lines, <<"\n">>) : lines \in SeqsUpTo(RunLines, MaxRunLines)}
        \cup RunExamples

InitRun ==
    /\ pc = "scan"
    /\ content \in RunTexts
    /\ other = <<>>
    /\ options \in {DefaultOptions,
                    [DefaultOptions EXCEPT !.stripBlockComments = FALSE],
                    [DefaultOptions EXCEPT !.sortProperties = FALSE]}
    /\ result = <<>>
    /\ otherResult = <<>>
    /\ again = <<>>
    /\ scanner = ScanStart
    /\ globals = GlobalsAtLoad
    /\ host = HostAtLoad

\* basicCommentRemoval returns to stripCommentsFromContent.
ScanStripped ==
    /\ pc = "scan"
    /\ scanner.i > Len(content)
    /\ result' = CleanUp(scanner.result)
    /\ pc' = "stripped"
    /\ UNCHANGED <<content, other, options, otherResult, again, scanner,
                   globals, host>>

\* The node normalizer runs, if the options ask for it, and the text is
\* returned.
NormalizeStripped ==
    /\ pc = "stripped"
    /\ result' = IF options.semanticComparison
                 THEN semanticDtsNormalization(result, options)
                 ELSE result
    /\ pc' = "done"
    /\ UNCHANGED <<content, other, options, otherResult, again, scanner,
                   globals, host>>

NextRun == ScanIteration \/ ScanStripped \/ NormalizeStripped

SpecRun == InitRun /\ [][NextRun]_vars

(***************************************************************************)
(* Calls of stripCommentsFromContent between the commands of the extension *)
(***************************************************************************)
MaxConfigs == 2

\* The texts the calls are made with.
CallTexts ==
    {Doc(<<NodeOf("n", <<Str(" b = <0x1F>;"), Str(" a;")>>)>>),
     Doc(<<<<Str("b { };")>>, <<Str("a { };")>>>>),
     Str("b  =  \"c\"; // d\na;"),
     Str("a;")}

InitCalls ==
    /\ pc = "input"
    /\ content \in CallTexts
    /\ other = <<>>
    /\ options \in OptionSets
    /\ result = <<>>
    /\ otherResult = <<>>
    /\ again = <<>>
    /\ scanner = ScanStart
    /\ globals = GlobalsAtLoad
    /\ host = HostAtLoad

\* A call with the arguments (content, options).
Invoke ==
    /\ pc = "input"
    /\ result' = stripCommentsFromContent(content, options)
    /\ pc' = "once"
    /\ UNCHANGED <<content, other, options, otherResult, again, scanner,
                   globals, host>>

\* A later call with the same arguments.
InvokeAgain ==
    /\ pc = "once"
    /\ otherResult' = stripCommentsFromContent(content, options)
    /\ pc' = "twice"
    /\ UNCHANGED <<content, other, options, result, again, scanner,
                   globals, host>>

\* The command dtsDiff.configureAdvancedOptions assigns the options chosen in
\* the dialog to the default options.
ConfigureAdvancedOptions ==
    /\ \E newOptions \in OptionSets :
           globals' = [globals EXCEPT !.defaultOptions = newOptions]
    /\ UNCHANGED <<pc, content, other, options, result, otherResult, again,
                   scanner, host>>

\* saveComparisonConfig appends a configuration, and watches its files when
\* it refreshes by itself.
SaveComparisonConfig ==
    /\ Len(globals.savedConfigurations) < MaxConfigs
    /\ \E autoRefresh \in BOOLEAN :
           LET id == Len(globals.savedConfigurations) + 1
               config == [id |-> id, autoRefresh |-> autoRefresh]
           IN  globals' =
                   [globals EXCEPT
                       !.savedConfigurations = Append(@, config),
                       !.activeWatchers =
                           IF autoRefresh THEN @ \cup {id} ELSE @]
    /\ UNCHANGED <<pc, content, other, options, result, otherResult, again,
                   scanner, host>>

NextCalls ==
    Invoke \/ InvokeAgain \/ ConfigureAdvancedOptions \/ SaveComparisonConfig

SpecCalls == InitCalls /\ [][NextCalls]_vars

(***************************************************************************)
(* Nodes inside each other given to finalizeNode                           *)
(***************************************************************************)
MaxDepth == 7

\* A node around the lines of another: two properties, then the child.
Wrapped(lines) ==
    <<Str("w {"), Str("q;"), Str("p;")>> \o lines \o <<Str("};")>>

\* The lines with d nodes around them.
RECURSIVE Nest(_, _)
Nest(lines, d) == IF d = 0 THEN lines ELSE Wrapped(Nest(lines, d - 1))

InitNested ==
    /\ pc = "input"
    /\ other \in NodeInputs
    /\ \E d \in 0..MaxDepth : content = Nest(other, d)
    /\ options \in NodeOptionSets
    /\ result = <<>>
    /\ otherResult = <<>>
    /\ again = <<>>
    /\ scanner = ScanStart
    /\ globals = GlobalsAtLoad
    /\ host = HostAtLoad

\* semanticDtsNormalization gives the outermost node to finalizeNode.
FinalizeNested ==
    /\ pc = "input"
    /\ result' = finalizeNode(content, options, 0)
    /\ pc' = "once"
    /\ UNCHANGED <<content, other, options, otherResult, again, scanner,
                   globals, host>>

NextNested == FinalizeNested

SpecNested == InitNested /\ [][NextNested]_vars

(***************************************************************************)
(* Nodes of properties and children given to finalizeNode                  *)
(***************************************************************************)
MaxItems == 3

\* What a node can hold: properties on one line, a child before which
\* properties can come, a child on one line, and the lines of properties
\* that go over several lines (ending in '=', in ',' or in neither, and
\* starting with a quote or not).
Items ==
    {<<Str(" b = <0x1F>;")>>, <<Str("\ta;")>>,
     <<Str(" c {"), Str("  z;"), Str("  y;"), Str(" };")>>,
     <<Str(" d { };")>>,
     <<Str(" e = <1>,")>>, <<Str("  <2>")>>, <<Str(" \"s\",")>>,
     <<Str(" f =")>>}

\* The declaration lines of the nodes.
Declarations == {Str("n {"), Str(" n {")}

MixedInputs ==
    {<<decl>> \o FlattenBlocks(items) \o <<Str("};")>> :
        decl \in Declarations, items \in SeqsUpTo(Items, MaxItems)}

InitMixed ==
    /\ pc = "input"
    /\ content \in MixedInputs
    /\ other = <<>>
    /\ options \in NodeOptionSets
    /\ result = <<>>
    /\ otherResult = <<>>
    /\ again = <<>>
    /\ scanner = ScanStart
    /\ globals = GlobalsAtLoad
    /\ host = HostAtLoad

FinalizeMixed ==
    /\ pc = "input"
    /\ result' = finalizeNode(content, options, 0)
    /\ pc' = "once"
    /\ UNCHANGED <<content, other, options, otherResult, again, scanner,
                   globals, host>>

NextMixed == FinalizeMixed

SpecMixed == InitMixed /\ [][NextMixed]_vars

(***************************************************************************)
(* Claims about whole documents                                            *)
(***************************************************************************)
\* The node normalizer runs on the document.
Normalizing == options.semanticComparison /\ options.sortProperties

\* The top-level lines of a text that belong to no extracted node.
FreeLines(text) ==
    TopLevelScan(split(text, "\n"), 1,
                 [topLevelNodes |-> <<>>, nonNodeLines |-> <<>>]).nonNodeLines

\* The name of a node as its declaration spells it: the label before ':'
\* when there is one, else the identifier with its '@' address.
NodeName(nodeDeclaration) ==
    LET s == SkipWhile(nodeDeclaration, 1, SpaceChars)
        a == SkipWhile(nodeDeclaration, s, NameChars \cup {"@"})
    IN  SubSeq(nodeDeclaration, s, a - 1)

\* The groups of sibling nodes of a text, each as the sequence of its
\* declaration lines: the top-level nodes, and the children of each of them.
SiblingGroups(text) ==
    LET top == TopLevelScan(split(text, "\n"), 1,
                   [topLevelNodes |-> <<>>, nonNodeLines |-> <<>>]).topLevelNodes
        children(k) ==
            ClassifyContent(SubSeq(top[k].lines, 2, Len(top[k].lines) - 1), 1,
                [childNodes |-> <<>>, propertyLines |-> <<>>]).childNodes
    IN  <<[k \in 1..Len(top) |-> top[k].lines[1]]>>
            \o [k \in 1..Len(top) |->
                   [c \in 1..Len(children(k)) |-> children(k)[c][1]]]

\* C1: processing is idempotent: processing the output again, with the same
\* options, gives the output.
C1_Idempotent ==
    pc = "twice" => again = result

\* C2: with semanticComparison and sortProperties on, two documents made of
\* nodes only that differ just by the order of sibling nodes, or of the
\* sibling properties of a node, give the same output.
C2_OrderInsensitive ==
    (pc # "input" /\ Normalizing /\ FreeLines(content) = <<>>)
        => result = otherResult

\* C3: the output of the node normalizer has as many node openers and as
\* many node closers as the input: no node is duplicated, none is lost and
\* every node keeps its opening and its closing line.
C3_StructuralFidelity ==
    (pc # "input" /\ Normalizing) =>
        /\ CountChar(result, "{") = CountChar(content, "{")
        /\ CountChar(result, "}") = CountChar(content, "}")

\* C4: with semanticComparison and sortProperties on, the sibling nodes of
\* the output, at the top level and inside a node, are in ascending order of
\* node name.
C4_SiblingsSorted ==
    (pc # "input" /\ Normalizing) =>
        LET groups == SiblingGroups(result)
        IN  \A g \in 1..Len(groups) : \A k \in 1..(Len(groups[g]) - 1) :
                localeCompare(NodeName(groups[g][k]),
                              NodeName(groups[g][k + 1])) <= 0

(***************************************************************************)
(* Claims about the properties of a node                                   *)
(***************************************************************************)
\* The logical properties of a node, in their original order.
LogicalProperties(nodeLines, opts) ==
    propertyRecords(
        mergeProperties(
            ClassifyContent(SubSeq(nodeLines, 2, Len(nodeLines) - 1), 1,
                [childNodes |-> <<>>, propertyLines |-> <<>>]).propertyLines),
        opts)

\* The lines between the declaration and the closing line of a node.
EmittedLines(nodeLines) == SubSeq(nodeLines, 2, Len(nodeLines) - 1)

\* The orders p of the n properties props in which the emitted lines show
\* them, equal keys in their original order.
StableOrders(props, emitted) ==
    {p \in Permutations(1..Len(props)) :
        /\ \A k \in 1..Len(props) :
              emitted[k] = Str("    ") \o trim(props[p[k]].normalized)
        /\ \A j, k \in 1..Len(props) :
              (j < k /\ props[p[j]].sortKey = props[p[k]].sortKey)
                  => p[j] < p[k]}

\* The text before the first '=', ':' or ';' of a property, trimmed.
KeyBefore(propertyText) ==
    LET stops == {k \in 1..Len(propertyText) :
                     propertyText[k] \in {"=", ":", ";"}}
        first == IF stops = {} THEN Len(propertyText) + 1
                 ELSE CHOOSE k \in stops : \A j \in stops : k <= j
    IN  trim(SubSeq(propertyText, 1, first - 1))

RECURSIVE HexLiterals(_, _)
HexLiterals(s, i) ==
    IF i + 2 > Len(s) THEN <<>>
    ELSE IF s[i] = "0" /\ s[i + 1] = "x" /\ IsHexDigit(s[i + 2])
         THEN LET e == SkipWhile(s, i + 2, HexLower \cup HexUpper)
              IN  <<SubSeq(s, i + 2, e - 1)>> \o HexLiterals(s, e)
         ELSE HexLiterals(s, i + 1)

\* s with the digits of its hex literals taken out.
RECURSIVE WithoutHexDigits(_, _)
WithoutHexDigits(s, i) ==
    IF i > Len(s) THEN <<>>
    ELSE IF i + 2 <= Len(s) /\ s[i] = "0" /\ s[i + 1] = "x"
              /\ IsHexDigit(s[i + 2])
         THEN <<"0", "x">>
                  \o WithoutHexDigits(s, SkipWhile(s, i + 2, HexLower \cup HexUpper))
         ELSE <<s[i]>> \o WithoutHexDigits(s, i + 1)

\* C6: normalizeHexValues turns the digits of every hex literal of the line
\* into lower case and into an even count (one '0' put in front of an odd
\* count), keeps the number of literals and every character that is not a
\* digit of a literal, and applying it a second time changes nothing.
C6_HexCanonical ==
    /\ pc \in {"once", "twice"} =>
         LET li == HexLiterals(content, 1)
             lo == HexLiterals(result, 1)
         IN  /\ Len(lo) = Len(li)
             /\ \A k \in 1..Len(li) :
                  /\ Len(lo[k]) % 2 = 0
                  /\ \A d \in 1..Len(lo[k]) : lo[k][d] \in HexLower
                  /\ lo[k] = (IF Len(li[k]) % 2 = 1 THEN <<"0">> ELSE <<>>)
                                 \o LowerAll(li[k])
             /\ WithoutHexDigits(result, 1) = WithoutHexDigits(content, 1)
             /\ (li = <<>> => result = content)
    /\ pc = "twice" => again = result

C6_Witness ==
    /\ pc = "twice"
    /\ content = Str("0xA 1")
    /\ result = Str("0x0a 1")
    /\ again = result

\* C7 as the specification states it: 0x2F -> 0x2f, 0x1 -> 0x01 and
\* 0xAB0 -> 0xab0 with no padding digit.
C7_AsStated ==
    pc = "once" =>
        /\ content = Str("0x2F") => result = Str("0x2f")
        /\ content = Str("0x1") => result = Str("0x01")
        /\ content = Str("0xAB0") => result = Str("0xab0")

\* C7, amended: 0x2F -> 0x2f, 0x1 -> 0x01 and 0xAB0 -> 0x0ab0: AB0 has three
\* digits, an odd count, so one '0' is put in front.
C7_HexExamples ==
    pc = "once" =>
        /\ content = Str("0x2F") => result = Str("0x2f")
        /\ content = Str("0x1") => result = Str("0x01")
        /\ content = Str("0xAB0") => result = Str("0x0ab0")

C7_Witness ==
    pc = "once" /\ content = Str("0xAB0") /\ result = Str("0x0ab0")

\* The '<' ... '>' spans of s from index i on, as [from, to] index pairs:
\* each '<' with the next '>' after it.
RECURSIVE AngleSpans(_, _)
AngleSpans(s, i) ==
    LET a == IndexOf(s, "<", i)
        b == IF a = 0 THEN 0 ELSE IndexOf(s, ">", a + 1)
    IN  IF b = 0 THEN <<>>
        ELSE <<[from |-> a, to |-> b]>> \o AngleSpans(s, b + 1)

\* s with the inside of every span taken out.
RECURSIVE OutsideSpans(_, _)
OutsideSpans(s, i) ==
    LET a == IndexOf(s, "<", i)
        b == IF a = 0 THEN 0 ELSE IndexOf(s, ">", a + 1)
    IN  IF b = 0 THEN SubSeq(s, i, Len(s))
        ELSE SubSeq(s, i, a) \o OutsideSpans(s, b)

\* The white-space separated tokens of s, in order.
Words(s) ==
    LET starts == {b \in 1..Len(s) :
                      ~IsSpace(s[b]) /\ (b = 1 \/ IsSpace(s[b - 1]))}
        wordAt(b) == SubSeq(s, b, SkipWhile(s, b, {s[k] : k \in 1..Len(s)}
                                                      \ SpaceChars) - 1)
        nth(n) == CHOOSE b \in starts :
                      Cardinality({c \in starts : c < b}) = n - 1
    IN  [n \in 1..Cardinality(starts) |-> wordAt(nth(n))]

\* The contents of the double-quoted strings of s, in order.
QuotedStrings(s) ==
    LET qs == {i \in 1..Len(s) : s[i] = "\""}
        nth(n) == CHOOSE i \in qs : Cardinality({j \in qs : j < i}) = n - 1
    IN  [k \in 1..(Cardinality(qs) \div 2) |->
            SubSeq(s, nth(2 * k - 1) + 1, nth(2 * k) - 1)]

C9_StringListFixpoint ==
    /\ (pc \in {"once", "twice"} /\ content = Str("compatible = \"a\", \"b\";"))
           => result = content
    /\ pc = "twice" => again = result

\* C10: the string-list rule splits only at commas outside quotes: the
\* quoted elements of the output are those of the input, as many, in the
\* same order, each with the same content.
C10_QuotedElementsKept ==
    pc \in {"once", "twice"} =>
        /\ QuotedStrings(result) = QuotedStrings(content)
        /\ content = Str("compatible=\"nordic,nrf-gpio\";")
               => result = Str("compatible = \"nordic,nrf-gpio\";")

C10_Witness ==
    /\ pc = "once"
    /\ content = Str("c=\"a,b\" ,\t\", \";")
    /\ result = Str("c = \"a,b\", \", \";")

(***************************************************************************)
(* Claims about the preprocessor                                           *)
(***************************************************************************)
\* The positions of the double quotes of a text.
QuotePositions(text) == {k \in 1..Len(text) : text[k] = "\""}

\* The text holds one double-quoted string that opens in normal mode: two
\* double quotes, neither after a backslash, no apostrophe, and no '/' before
\* the first quote.
HoldsOneString(text) ==
    /\ Cardinality(QuotePositions(text)) = 2
    /\ \A k \in QuotePositions(text) : CharAt(text, k - 1) # "\\"
    /\ \A k \in 1..Len(text) :
          /\ text[k] # "'"
          /\ text[k] = "/" => \E q \in QuotePositions(text) : q < k

\* That string, quotes included.
TheString(text) ==
    LET qs == QuotePositions(text)
    IN  SubSeq(text, CHOOSE a \in qs : \A q \in qs : a <= q,
                     CHOOSE b \in qs : \A q \in qs : q <= b)

\* part is a run of consecutive characters of whole.
Occurs(part, whole) ==
    \E k \in 0..(Len(whole) - Len(part)) :
        SubSeq(whole, k + 1, k + Len(part)) = part

\* C11: with stripLineComments, stripBlockComments and preserveStringLiterals
\* on, a quoted string of the input, comment markers inside it included, is
\* in the output unchanged.
C11_StringsPreserved ==
    (/\ pc = "done"
     /\ options.stripLineComments /\ options.stripBlockComments
     /\ options.preserveStringLiterals
     /\ HoldsOneString(content))
        => Occurs(TheString(content), result)

(***************************************************************************)
(* Claims about the entry point                                            *)
(***************************************************************************)
\* C12: when semanticComparison or sortProperties is off, the output is the
\* output of the preprocessor alone, the same whatever normalizeHexValues and
\* normalizeArrays are.
C12_Gating ==
    (pc # "input" /\ ~(options.semanticComparison /\ options.sortProperties))
        => /\ result = basicCommentRemoval(content, options)
           /\ \A hex, arrays \in BOOLEAN :
                 result = stripCommentsFromContent(content,
                              [options EXCEPT !.normalizeHexValues = hex,
                                              !.normalizeArrays = arrays])

\* A node with properties out of order and a hex value in upper case comes
\* out as the preprocessor leaves it.
C12_Witness ==
    /\ pc = "once"
    /\ ~options.sortProperties
    /\ options.normalizeHexValues
    /\ content = Doc(<<NodeOf("n", <<Str(" b = <0x1F>;"), Str(" a;")>>)>>)
    /\ result = content

\* A text: a sequence of single characters.
IsText(t) ==
    /\ t = [k \in 1..Len(t) |-> t[k]]
    /\ \A k \in 1..Len(t) : Len(t[k]) = 1

\* What is left of a run: the characters still to scan and the two returns.
StepsLeft ==
    CASE pc = "scan" -> Len(content) + 3 - scanner.i
      [] pc = "stripped" -> 1
      [] OTHER -> 0

Scanned(text) ==
    TopLevelScan(split(text, "\n"), 1,
                 [topLevelNodes |-> <<>>, nonNodeLines |-> <<>>])

\* The line after the span of a node.
AfterNode(node) == node.startLine + Len(node.lines)

\* The free lines that follow a node in the input, up to the next node of the
\* input; none for the last node of the input.
FreeLinesAfter(scanned, node) ==
    LET later == {n.startLine : n \in {scanned.topLevelNodes[k] :
                      k \in 1..Len(scanned.topLevelNodes)}}
                     \ (0..node.startLine)
    IN  IF later = {} THEN <<>>
        ELSE LinesBetween(scanned.nonNodeLines, AfterNode(node) - 1,
                          CHOOSE m \in later : \A l \in later : m <= l)

\* The nodes from idx on, each followed by the free lines that followed it in
\* the input.
RECURSIVE NodesWithTheirFreeLines(_, _, _, _)
NodesWithTheirFreeLines(nodes, scanned, opts, idx) ==
    IF idx > Len(nodes) THEN <<>>
    ELSE finalizeNode(nodes[idx].lines, opts, 0)
             \o FreeLinesAfter(scanned, nodes[idx])
             \o NodesWithTheirFreeLines(nodes, scanned, opts, idx + 1)

\* The document with its nodes sorted and every free line placed as stated:
\* those before the first node first, those between two nodes of the input
\* after the node that preceded them, those after the last node of the input
\* last.
PlacedAsStated(text, opts) ==
    LET scanned == Scanned(text)
        nodes == scanned.topLevelNodes
        n == Len(nodes)
        sorted == IF n > 1 THEN sortBySortKey(nodes) ELSE nodes
        numberOfLines == Len(split(text, "\n"))
    IN  IF n = 0 THEN split(text, "\n")
        ELSE LinesBetween(scanned.nonNodeLines, 0, nodes[1].startLine)
                 \o NodesWithTheirFreeLines(sorted, scanned, opts, 1)
                 \o LinesBetween(scanned.nonNodeLines, AfterNode(nodes[n]) - 1,
                                 numberOfLines + 1)

\* C15: the free lines that lay between two top-level nodes of the input are
\* emitted immediately after the node that preceded them in the input,
\* wherever the sort moves that node; the free lines before the first opener
\* are emitted first and those after the last node of the input last.
C15_FreeLinesFollowTheirNode ==
    (pc # "input" /\ Normalizing)
        => split(result, "\n")
               = PlacedAsStated(basicCommentRemoval(content, options), options)

\* How often a line occurs in a sequence of lines.
Count(line, lines) == Cardinality({k \in 1..Len(lines) : lines[k] = line})

\* The lines of the processed top-level nodes of a stripped text.
ProcessedNodeLines(text, opts) ==
    NodesWithTheirFreeLines(Scanned(text).topLevelNodes,
                            [topLevelNodes |-> <<>>, nonNodeLines |-> <<>>],
                            opts, 1)

\* C16: every free line is emitted exactly once: a line occurs in the output
\* as often as among the free lines of the input and the lines of the
\* processed nodes together.
C16_FreeLinesOnce ==
    (pc # "input" /\ Normalizing)
        => LET stripped == basicCommentRemoval(content, options)
               free == [k \in 1..Len(FreeLines(stripped)) |->
                           FreeLines(stripped)[k].line]
               inNodes == ProcessedNodeLines(stripped, options)
           IN  \A k \in 1..Len(free) :
                   Count(free[k], split(result, "\n"))
                       = Count(free[k], free) + Count(free[k], inNodes)

(***************************************************************************)
(* Claims about the parts of a node                                        *)
(***************************************************************************)
\* The value normalizers are off: a property is emitted with the words its
\* lines had.
ValuesKept == ~options.normalizeHexValues /\ ~options.normalizeArrays

\* C17: inside a processed node every non-blank content line ends up in
\* exactly one property or one child block, none is dropped and none is
\* duplicated. So, for a document made of nodes only and with the value
\* normalizers off, every word occurs in the output as often as in the
\* stripped input.
C17_ContentPartitioned ==
    (pc # "input" /\ Normalizing /\ ValuesKept)
        => LET stripped == basicCommentRemoval(content, options)
               wordsIn == splitWhitespace(stripped)
               wordsOut == splitWhitespace(result)
           IN  FreeLines(stripped) = <<>>
                   => \A w \in {wordsIn[k] : k \in 1..Len(wordsIn)}
                              \cup {wordsOut[k] : k \in 1..Len(wordsOut)} :
                          Count(w, wordsOut) = Count(w, wordsIn)

(***************************************************************************)
(* Claims about the span of a node                                         *)
(***************************************************************************)
\* The count of '{' minus '}' over the first k lines of a block.
RECURSIVE BraceSum(_, _)
BraceSum(block, k) ==
    IF k = 0 THEN 0 ELSE BraceSum(block, k - 1) + BraceDelta(block[k])

\* A block taken out of a range of lines from the line start on is the span
\* of a node as stated: it begins with an opener, the count does not return
\* to 0 before its last line, and it returns to 0 there unless the block
\* runs to the end of the range.
SpanAsStated(block, range, start) ==
    /\ block # <<>>
    /\ block = SubSeq(range, start, start + Len(block) - 1)
    /\ IsNodeOpener(block[1])
    /\ \A k \in 1..(Len(block) - 1) : BraceSum(block, k) # 0
    /\ \/ BraceSum(block, Len(block)) = 0
       \/ BraceSum(block, Len(block)) > 0
              /\ start + Len(block) - 1 = Len(range)

\* The first place from the line from on where a block lies in a range.
BlockStart(block, range, from) ==
    CHOOSE j \in from..(Len(range) + 1) :
        /\ j = Len(range) + 1
               \/ block = SubSeq(range, j, j + Len(block) - 1)
        /\ \A l \in from..(j - 1) :
               block # SubSeq(range, l, l + Len(block) - 1)

\* The child blocks of a node are spans as stated within the content lines
\* of the node, and together they are no longer than the content.
RECURSIVE ChildSpansAsStated(_, _, _)
ChildSpansAsStated(childNodes, contentLines, from) ==
    \/ childNodes = <<>>
    \/ LET start == BlockStart(Head(childNodes), contentLines, from)
       IN  /\ start + Len(Head(childNodes)) - 1 <= Len(contentLines)
           /\ SpanAsStated(Head(childNodes), contentLines, start)
           /\ ChildSpansAsStated(Tail(childNodes), contentLines,
                                 start + Len(Head(childNodes)))

\* C18: every extracted node span, top-level or child, starts at its opener
\* line and ends at the line where the count of '{' minus '}' over the span
\* returns to 0; with unbalanced braces it stops at the end of the enclosing
\* range of lines; and a child span lies within the content lines of its
\* parent.
C18_SpansBalanced ==
    pc = "stripped"
        => LET lines == split(result, "\n")
               nodes == Scanned(result).topLevelNodes
           IN  \A n \in 1..Len(nodes) :
                   /\ SpanAsStated(nodes[n].lines, lines, nodes[n].startLine)
                   /\ Len(nodes[n].lines) >= 2
                          => LET contentLines ==
                                     SubSeq(nodes[n].lines, 2,
                                            Len(nodes[n].lines) - 1)
                             IN  ChildSpansAsStated(
                                     ClassifyContent(contentLines, 1,
                                         [childNodes |-> <<>>,
                                          propertyLines |-> <<>>]).childNodes,
                                     contentLines, 1)

(***************************************************************************)
(* Claims about the depth of a node                                        *)
(***************************************************************************)
\* The number of nodes around the innermost node of content.
DepthOfInnermost == (Len(content) - Len(other)) \div 4

\* What is stated of d nodes around the lines of a node, the outermost of
\* them at the given depth: up to the ceiling a node comes out with its
\* properties sorted and indented before its child, beyond it as it went in.
RECURSIVE NestedAsStated(_, _, _, _)
NestedAsStated(lines, d, depth, opts) ==
    IF depth > 5 THEN Nest(lines, d)
    ELSE IF d = 0 THEN finalizeNode(lines, opts, 0)
    ELSE <<Str("w {"), Str("    p;"), Str("    q;")>>
             \o NestedAsStated(lines, d - 1, depth + 1, opts)
             \o <<Str("};")>>

\* C19: finalizeNode sorts and normalizes nodes at the depths 0 to 5 only; a
\* node reached at a depth greater than 5 is returned with exactly its input
\* lines: nothing in it is sorted, normalized or indented anew.
C19_Ceiling ==
    pc = "once"
        => result = NestedAsStated(other, DepthOfInnermost, 0, options)

\* Six nodes around a node: the node at depth 5 has its properties sorted, the
\* node at depth 6 is as it went in though processing would change it.
C19_Witness ==
    /\ pc = "once"
    /\ DepthOfInnermost = 6
    /\ finalizeNode(other, options, 0) # other
    /\ SubSeq(result, 16, 18) = <<Str("w {"), Str("    p;"), Str("    q;")>>
    /\ SubSeq(result, 19, 18 + Len(other)) = other

\* The line finalizeNode emits for a node's only property.
OnlyPropertyLine(line, opts) ==
    LET afterHex == IF opts.normalizeHexValues
                    THEN normalizeHexValues(line) ELSE line
        afterArrays == IF opts.normalizeArrays
                       THEN normalizeArrays(afterHex) ELSE afterHex
    IN  Str("    ") \o trim(afterArrays)

\* C20: finalizeNode returns the lines of a node unchanged when the node has
\* fewer than 2 lines in all, that is, when it stands on one line. A node
\* that holds a single property is processed: its declaration and closing
\* lines are kept and the property is emitted normalized and indented anew.
C20_BaseCase ==
    pc # "input"
        => /\ Len(content) < 2 => result = content
           /\ Len(content) = 3
                  => result = <<content[1],
                               OnlyPropertyLine(content[2], options),
                               content[3]>>

\* A node on one line has been returned as it was.
C20_Witness ==
    /\ pc = "once"
    /\ content = <<Str("n { };")>>
    /\ result = content

\* C20 as stated: a node whose content has fewer than 2 inner lines is
\* returned unchanged.
C20_AsStated ==
    (pc # "input" /\ Len(content) - 2 < 2) => result = content

(***************************************************************************)
(* Claims about the rebuilt node                                           *)
(***************************************************************************)
\* The child blocks of a node, in their original order.
ChildBlocks(nodeLines) ==
    ClassifyContent(SubSeq(nodeLines, 2, Len(nodeLines) - 1), 1,
        [childNodes |-> <<>>, propertyLines |-> <<>>]).childNodes

\* The white space a line begins with.
LeadingSpace(line) ==
    LET rest == {k \in 1..Len(line) : ~IsSpace(line[k])}
    IN  IF rest = {} THEN line
        ELSE SubSeq(line, 1, (CHOOSE k \in rest : \A j \in rest : k <= j) - 1)

\* C21: a rebuilt node is its declaration line unchanged, then every logical
\* property, stripped of its indentation and put behind the white space of the
\* declaration line plus exactly four blanks, then the finalized block of
\* every child as it is, then the closing line unchanged; all properties
\* come before all children.
C21_Rebuilt ==
    pc # "input"
        => LET props == LogicalProperties(content, options)
               children == ChildBlocks(content)
               n == Len(props)
               prefix == LeadingSpace(content[1]) \o Str("    ")
           IN  /\ result[1] = content[1]
               /\ result[Len(result)] = content[Len(content)]
               /\ Len(result) >= n + 2
               /\ \E p \in Permutations(1..n) :
                      \A k \in 1..n :
                          /\ result[1 + k]
                                 = prefix \o trim(props[p[k]].normalized)
                          /\ ~IsSpace(result[1 + k][Len(prefix) + 1])
               /\ \E q \in Permutations(1..Len(children)) :
                      SubSeq(result, n + 2, Len(result) - 1)
                          = FlattenBlocks(
                                [k \in 1..Len(children) |->
                                    finalizeNode(children[q[k]], options, 1)])

\* A node declared behind one blank, with a child before its property: the
\* property comes first, behind five blanks; the block of the child follows
\* with its own lines where they were.
C21_Witness ==
    /\ pc = "once"
    /\ options = DefaultOptions
    /\ content = <<Str(" n {"), Str(" c {"), Str("  z;"), Str("  y;"),
                   Str(" };"), Str(" b = <0x1F>;"), Str("};")>>
    /\ result = <<Str(" n {"), Str("     b = < 0x1f >;"), Str(" c {"),
                  Str("     y;"), Str("     z;"), Str(" };"), Str("};")>>

(***************************************************************************)
(* Claims about properties that go over several lines                      *)
(***************************************************************************)
\* The candidate property lines of a node: its non-blank content lines
\* outside its child blocks.
CandidateLines(nodeLines) ==
    ClassifyContent(SubSeq(nodeLines, 2, Len(nodeLines) - 1), 1,
        [childNodes |-> <<>>, propertyLines |-> <<>>]).propertyLines

\* A text holds the character c.
Holds(text, c) == \E k \in 1..Len(text) : text[k] = c

\* The candidate line k ends a group as stated.
EndsGroup(lines, k) ==
    LET t == trim(lines[k])
        following == trim(lines[k + 1])
    IN  \/ k = Len(lines)
        \/ t[Len(t)] = ";"
        \/ /\ t[Len(t)] = ","
           /\ Holds(following, "=")
           /\ following[1] # "\""

\* The groups as stated: each runs from the line after the end of the group
\* before it to its own end, its trimmed lines joined by one blank.
GroupsAsStated(lines) ==
    LET ends == {k \in 1..Len(lines) : EndsGroup(lines, k)}
        endOf(n) == CHOOSE e \in ends :
                        Cardinality({j \in ends : j <= e}) = n
        startOf(n) == IF n = 1 THEN 1 ELSE endOf(n - 1) + 1
    IN  [n \in 1..Cardinality(ends) |->
            join([k \in 1..(endOf(n) - startOf(n) + 1) |->
                     trim(lines[startOf(n) + k - 1])], <<" ">>)]

\* C22: the candidate property lines of a node are grouped, in order, into
\* logical properties: a group ends exactly at a line ending in ';', at a
\* line ending in ',' whose following candidate line holds '=' and does not
\* start with a double quote, or at the last candidate line; the trimmed
\* lines of a group are joined by one blank. With the value normalizers off,
\* the lines emitted for the properties are these groups.
C22_Merged ==
    pc # "input"
        => LET groups == GroupsAsStated(CandidateLines(content))
               props == LogicalProperties(content, options)
               prefix == LeadingSpace(content[1]) \o Str("    ")
           IN  /\ mergeProperties(CandidateLines(content)) = groups
               /\ Len(props) = Len(groups)
               /\ \A k \in 1..Len(groups) : props[k].original = groups[k]
               /\ ValuesKept
                      => {result[1 + k] : k \in 1..Len(props)}
                             = {prefix \o groups[k] : k \in 1..Len(groups)}

\* A property of two lines, ended by a line with a comma because the line
\* after it holds '=', and a property on one line.
C22_Witness ==
    /\ pc = "once"
    /\ ValuesKept
    /\ content = <<Str("n {"), Str(" f ="), Str(" \"s\","),
                   Str(" b = <0x1F>;"), Str("};")>>
    /\ result = <<Str("n {"), Str("    b = <0x1F>;"), Str("    f = \"s\","),
                  Str("};")>>

(***************************************************************************)
(* Claims about the sort key of a node                                     *)
(***************************************************************************)
\* The identifier a declaration line starts with, up to the first character
\* that is none of a name ('@', ':', '{' or a blank).
IdentifierOf(nodeDeclaration) ==
    LET s == SkipWhile(nodeDeclaration, 1, SpaceChars)
        a == SkipWhile(nodeDeclaration, s, NameChars)
    IN  SubSeq(nodeDeclaration, s, a - 1)

\* C23: the sort key of every line classified as a node opener, top-level or
\* child, is the label before ':' when the line has one, otherwise the
\* identifier before '@' or '{' (taken with or without the address after
\* '@'); no such opener gets the key 'zzz_unknown'.
C23_SortKeyDerived ==
    (pc # "input" /\ Normalizing)
        => LET groups == SiblingGroups(basicCommentRemoval(content, options))
           IN  \A g \in 1..Len(groups) : \A k \in 1..Len(groups[g]) :
                   nodeSortKey(groups[g][k])
                       \in {IdentifierOf(groups[g][k]), NodeName(groups[g][k])}

(***************************************************************************)
(* Claims about the modes of the scanner                                   *)
(***************************************************************************)
\* How many of the three mode flags of the scanner are set.
ModesSet ==
    Cardinality({m \in {"inString", "inLineComment", "inBlockComment"} :
                    scanner[m]})

\* C24: at every step of the character scan at most one of inString,
\* inLineComment and inBlockComment is true; inString is never true when
\* preserveStringLiterals is off, inLineComment never when stripLineComments
\* is off, inBlockComment never when stripBlockComments is off.
C24_ModesExclusive ==
    /\ ModesSet <= 1
    /\ scanner.inString => options.preserveStringLiterals
    /\ scanner.inLineComment => options.stripLineComments
    /\ scanner.inBlockComment => options.stripBlockComments
    /\ scanner.inString <=> scanner.stringDelimiter # ""

\* The scan is in a line comment and has passed a quote and a block comment
\* opener inside it: the line comment is the only mode.
C24_Witness ==
    /\ pc = "scan"
    /\ options = DefaultOptions
    /\ scanner.inLineComment
    /\ ModesSet = 1
    /\ scanner.i = 5
    /\ SubSeq(content, 1, 4) = <<"/", "/", "\"", "/">>

\* C25: white space is normalized in normal mode only. With
\* normalizeWhitespace and preserveStringLiterals on, an iteration of the
\* scan that starts inside a string, before its closing quote, copies the
\* character it is at to the output, unchanged, and goes on to the next
\* character.
C25_StringsCopied ==
    [][(/\ pc = "scan"
        /\ scanner' # scanner
        /\ scanner.inString
        /\ \E j \in (scanner.i + 1)..Len(content) :
               content[j] = scanner.stringDelimiter
        /\ options.normalizeWhitespace
        /\ options.preserveStringLiterals)
          => /\ scanner'.result = Append(scanner.result, content[scanner.i])
             /\ scanner'.i = scanner.i + 1]_vars

(***************************************************************************)
(* Claims about the output of the preprocessor                             *)
(***************************************************************************)
\* C26: no line of the output of the preprocessor ends with white space, no
\* two blank lines follow each other (the output neither begins with two
\* blank lines nor holds two of them after a line), and the output never
\* holds three or more line feeds in a row.
C26_PostPass ==
    pc = "done"
        => LET lines == split(result, "\n")
           IN  /\ \A k \in 1..Len(lines) :
                      lines[k] = <<>> \/ ~IsSpace(lines[k][Len(lines[k])])
               /\ ~(Len(lines) >= 3 /\ lines[1] = <<>> /\ lines[2] = <<>>)
               /\ \A k \in 1..(Len(result) - 2) :
                      SubSeq(result, k, k + 2) # <<"\n", "\n", "\n">>

\* C26 but for the beginning of the output: no line of the output of the
\* preprocessor ends with white space and the output never holds three or
\* more line feeds in a row, so that no two blank lines follow each other
\* after a line; the output can begin with two blank lines.
C26_AfterFirstLine ==
    pc = "done"
        => LET lines == split(result, "\n")
           IN  /\ \A k \in 1..Len(lines) :
                      lines[k] = <<>> \/ ~IsSpace(lines[k][Len(lines[k])])
               /\ \A k \in 1..(Len(result) - 2) :
                      SubSeq(result, k, k + 2) # <<"\n", "\n", "\n">>

\* A text with white space before a line comment and four line ends in a row
\* has come out with the line trimmed and one blank line.
C26_Witness ==
    /\ pc = "done"
    /\ options = DefaultOptions
    /\ content = Str("\ta\t \tb\r\n  \t c // d\r\n\n\n\ne /* f")
    /\ result = Str("    a b\n       c\n\ne")

(***************************************************************************)
(* Claims about quotes                                                     *)
(***************************************************************************)
\* The number of backslashes just before the character i of a text.
BackslashesBefore(text, i) ==
    LET others == {j \in 1..(i - 1) : text[j] # "\\"}
        last == IF others = {} THEN 0
                ELSE CHOOSE j \in others : \A l \in others : l <= j
    IN  i - 1 - last

\* C27: with preserveStringLiterals on and outside comments, a quote that is
\* not preceded by an unescaped backslash (that has an even number of
\* backslashes before it) opens a string, or closes the string the same
\* delimiter opened; a quote behind an unescaped backslash, and the other
\* delimiter inside a string, leave the mode as it is.
C27_Quotes ==
    [][(/\ pc = "scan"
        /\ scanner' # scanner
        /\ options.preserveStringLiterals
        /\ ~scanner.inLineComment /\ ~scanner.inBlockComment
        /\ content[scanner.i] \in {"\"", "'"})
          => LET char == content[scanner.i]
                 escaped == BackslashesBefore(content, scanner.i) % 2 = 1
             IN  scanner'.inString
                     = IF escaped THEN scanner.inString
                       ELSE IF ~scanner.inString THEN TRUE
                       ELSE char # scanner.stringDelimiter]_vars

(***************************************************************************)
(* Claims about comments                                                   *)
(***************************************************************************)
\* No '*/' begins at the character i of a text or after it.
NoCloserFrom(text, i) ==
    \A j \in i..(Len(text) - 1) : ~(text[j] = "*" /\ text[j + 1] = "/")

\* C28: with stripBlockComments on, a '/*' met in normal mode starts a block
\* comment, and while no '*/' follows nothing more is emitted: the comment
\* runs to the end of the input. A '//' met in normal mode, with
\* stripLineComments on, starts a line comment that emits nothing up to the
\* next end-of-line character; that character is emitted and the scanner is
\* back in normal mode.
C28_CommentsConsume ==
    [][(pc = "scan" /\ scanner' # scanner)
          => LET i == scanner.i
                 opens(c) == /\ ModesSet = 0
                             /\ content[i] = "/"
                             /\ i < Len(content) /\ content[i + 1] = c
             IN  /\ (options.stripBlockComments /\ opens("*"))
                        => /\ scanner'.inBlockComment
                           /\ scanner'.result = scanner.result
                 /\ (scanner.inBlockComment /\ NoCloserFrom(content, i))
                        => /\ scanner'.inBlockComment
                           /\ scanner'.result = scanner.result
                 /\ (options.stripLineComments /\ opens("/")
                         /\ ~(options.stripBlockComments /\ opens("*")))
                        => /\ scanner'.inLineComment
                           /\ scanner'.result = scanner.result
                 /\ (scanner.inLineComment /\ content[i] \notin {"\n", "\r"})
                        => /\ scanner'.inLineComment
                           /\ scanner'.result = scanner.result
                 /\ (scanner.inLineComment /\ content[i] \in {"\n", "\r"})
                        => /\ ModesSet' = 0
                           /\ scanner'.result
                                  = Append(scanner.result, content[i])
                           /\ scanner'.i = i + 1]_vars

\* The scan is at the end of a text: the line comment '// d' has ended at
\* its carriage return, which is emitted, and the block comment opened by
\* '/* f' is still open; nothing of either comment is in the output.
C28_Witness ==
    /\ pc = "scan"
    /\ options = DefaultOptions
    /\ content = Str("\ta\t \tb\r\n  \t c // d\r\n\n\n\ne /* f")
    /\ scanner.i > Len(content)
    /\ scanner.inBlockComment
    /\ scanner.result = Str("    a b\n       c \r\n\n\n\ne ")

(***************************************************************************)
(* Saved comparisons, their file watchers and their refresh timers         *)
(***************************************************************************)
\* The ids of the saved configurations.
SavedIds ==
    {globals.savedConfigurations[k].id :
        k \in 1..Len(globals.savedConfigurations)}

\* The ids of the saved configurations that refresh by themselves.
AutoRefreshIds ==
    {globals.savedConfigurations[k].id :
        k \in {j \in 1..Len(globals.savedConfigurations) :
                  globals.savedConfigurations[j].autoRefresh}}

InitWatch ==
    /\ pc = "input"
    /\ content = <<>>
    /\ other = <<>>
    /\ options = DefaultOptions
    /\ result = <<>>
    /\ otherResult = <<>>
    /\ again = <<>>
    /\ scanner = ScanStart
    /\ globals = GlobalsAtLoad
    /\ host = HostAtLoad

\* setupFileWatchers disposes the watchers the configuration had and sets
\* the two new ones as its entry of activeWatchers.
setupFileWatchers(activeWatchers, config) == activeWatchers \cup {config.id}

\* saveComparisonConfig up to its await of saveConfigurations(): the
\* configuration gets Date.now() as its id and is pushed.
SaveComparisonPushed ==
    /\ host.now < MaxConfigs
    /\ \E autoRefresh \in BOOLEAN :
           LET config == [id |-> host.now + 1, autoRefresh |-> autoRefresh]
           IN  /\ globals' = [globals EXCEPT
                                 !.savedConfigurations = Append(@, config)]
               /\ host' = [host EXCEPT !.now = @ + 1,
                                       !.saving = @ \cup {config}]
    /\ UNCHANGED <<pc, content, other, options, result, otherResult, again,
                   scanner>>

\* saveComparisonConfig after that await: the watchers are set up when the
\* call was made with autoRefresh (host.saving keeps the configuration as it
\* was made, and with it the argument).
SaveComparisonResumed ==
    /\ \E config \in host.saving :
           /\ globals' = [globals EXCEPT
                             !.activeWatchers =
                                 IF config.autoRefresh
                                 THEN setupFileWatchers(@, config)
                                 ELSE @]
           /\ host' = [host EXCEPT !.saving = @ \ {config}]
    /\ UNCHANGED <<pc, content, other, options, result, otherResult, again,
                   scanner>>

\* A watcher of the configuration reports a change of one of its files:
\* refreshComparison starts a timer of 500 ms.
FileChanged ==
    /\ \E id \in globals.activeWatchers :
           host' = [host EXCEPT !.timers = @ \cup {id}]
    /\ host' # host
    /\ UNCHANGED <<pc, content, other, options, result, otherResult, again,
                   scanner, globals>>

\* A timer runs out: its callback calls runSavedComparison with the
\* configuration the watcher was set up for.
TimerFired ==
    /\ \E id \in host.timers :
           host' = [host EXCEPT !.timers = @ \ {id}, !.lastRefreshed = id]
    /\ UNCHANGED <<pc, content, other, options, result, otherResult, again,
                   scanner, globals>>

\* deleteComparison with one configuration chosen and confirmed.
DeleteComparison ==
    /\ \E id \in SavedIds :
           globals' = [globals EXCEPT
                          !.activeWatchers = @ \ {id},
                          !.savedConfigurations =
                              SelectSeq(@, LAMBDA c : c.id # id)]
    /\ UNCHANGED <<pc, content, other, options, result, otherResult, again,
                   scanner, host>>

\* deleteComparison with 'Delete ALL Configurations' chosen and confirmed.
DeleteAllComparisons ==
    /\ Len(globals.savedConfigurations) > 1
    /\ globals' = [globals EXCEPT !.activeWatchers = {},
                                  !.savedConfigurations = <<>>]
    /\ UNCHANGED <<pc, content, other, options, result, otherResult, again,
                   scanner, host>>

\* toggleAutoRefresh with one configuration chosen: the flag of the
\* configuration object is inverted, and its watchers are set up or disposed.
ToggleAutoRefresh ==
    /\ \E k \in 1..Len(globals.savedConfigurations) :
           LET config == globals.savedConfigurations[k]
               toggled == [config EXCEPT !.autoRefresh = ~@]
           IN  globals' =
                   [globals EXCEPT
                       !.savedConfigurations[k] = toggled,
                       !.activeWatchers =
                           IF toggled.autoRefresh
                           THEN setupFileWatchers(@, toggled)
                           ELSE @ \ {config.id}]
    /\ UNCHANGED <<pc, content, other, options, result, otherResult, again,
                   scanner, host>>

NextWatch ==
    \/ SaveComparisonPushed
    \/ SaveComparisonResumed
    \/ FileChanged
    \/ TimerFired
    \/ DeleteComparison
    \/ DeleteAllComparisons
    \/ ToggleAutoRefresh

SpecWatch == InitWatch /\ [][NextWatch]_vars

(***************************************************************************)
(* Deleted and switched-off comparisons                                    *)
(***************************************************************************)
\* The callback of a refresh timer calls runSavedComparison in this step.
RefreshRuns == host'.timers # host.timers /\ host'.timers \subseteq host.timers

\* C29: a refresh timer that runs out calls runSavedComparison only for a
\* configuration that is saved and has autoRefresh, so no refresh of a
\* comparison runs after its deletion or after its switch-off; and in every
\* state activeWatchers has entries only for ids of saved configurations
\* whose autoRefresh is true.
C29_NoRefreshAfterStop ==
    /\ [](globals.activeWatchers \subseteq AutoRefreshIds)
    /\ [][RefreshRuns => host'.lastRefreshed \in AutoRefreshIds]_vars

(***************************************************************************)
(* The dialog of the advanced options                                      *)
(***************************************************************************)
\* { ...defaults, ...saved }: what is stored under 'advancedOptions' is a
\* whole option record, or nothing.
mergeOptions(defaults, saved) ==
    IF saved = {} THEN defaults ELSE CHOOSE o \in saved : TRUE

\* The state after activate(): loadAdvancedOptions has assigned what is
\* stored to the default options.
InitDialog ==
    /\ pc = "input"
    /\ content = <<>>
    /\ other = <<>>
    /\ options = DefaultOptions
    /\ result = <<>>
    /\ otherResult = <<>>
    /\ again = <<>>
    /\ scanner = ScanStart
    /\ \E saved \in {{}} \cup {{o} : o \in OptionSets} :
           /\ host = [HostAtLoad EXCEPT !.advancedOptions = saved]
           /\ globals = [GlobalsAtLoad EXCEPT
                            !.defaultOptions =
                                mergeOptions(DefaultOptions, saved)]

\* The command dtsDiff.configureAdvancedOptions up to its await:
\* showAdvancedOptionsDialog shows the quick pick and returns the promise.
ShowAdvancedOptionsDialog ==
    /\ host.promise \in {"none", "taken"}
    /\ host.events = {}
    /\ host' = [host EXCEPT
                   !.currentOptions =
                       {mergeOptions(globals.defaultOptions,
                                     host.advancedOptions)},
                   !.newOptions = {},
                   !.quickPick = "shown",
                   !.promise = "pending"]
    /\ UNCHANGED <<pc, content, other, options, result, otherResult, again,
                   scanner, globals>>

\* onDidAccept: quickPick.hide(), the new options are the current ones with
\* the seven options of the list as selected, and saveAdvancedOptions is
\* called: the update of globalState and the hide event are under way.
QuickPickAccepted ==
    /\ host.quickPick = "shown"
    /\ \E selected \in OptionSets, currentOptions \in host.currentOptions :
           LET newOptions ==
                   [selected EXCEPT
                       !.preserveStringLiterals =
                           currentOptions.preserveStringLiterals]
           IN  host' = [host EXCEPT
                           !.quickPick = "hidden",
                           !.newOptions = {newOptions},
                           !.advancedOptions = {newOptions},
                           !.events = {"hide", "saved"}]
    /\ UNCHANGED <<pc, content, other, options, result, otherResult, again,
                   scanner, globals>>

\* The user leaves the quick pick without accepting: the hide event is under
\* way.
QuickPickCancelled ==
    /\ host.quickPick = "shown"
    /\ host' = [host EXCEPT !.quickPick = "hidden", !.events = {"hide"}]
    /\ UNCHANGED <<pc, content, other, options, result, otherResult, again,
                   scanner, globals>>

\* resolve(value) settles the promise when it is pending, and does nothing
\* otherwise.
resolve(promise, value) == IF promise = "pending" THEN value ELSE promise

\* onDidHide: quickPick.dispose() and resolve(undefined).
QuickPickHidden ==
    /\ "hide" \in host.events
    /\ host' = [host EXCEPT !.events = @ \ {"hide"},
                            !.quickPick = "none",
                            !.promise = resolve(@, "undefined")]
    /\ UNCHANGED <<pc, content, other, options, result, otherResult, again,
                   scanner, globals>>

\* The update of saveAdvancedOptions is done: its then() callback calls
\* resolve(newOptions).
AdvancedOptionsSaved ==
    /\ "saved" \in host.events
    /\ host' = [host EXCEPT !.events = @ \ {"saved"},
                            !.promise = resolve(@, "newOptions")]
    /\ UNCHANGED <<pc, content, other, options, result, otherResult, again,
                   scanner, globals>>

\* The command after its await: the options the promise was resolved with
\* are assigned to the default options; undefined assigns nothing.
AdvancedOptionsTaken ==
    /\ host.promise \in {"undefined", "newOptions"}
    /\ globals' = [globals EXCEPT
                      !.defaultOptions =
                          IF host.promise = "newOptions"
                          THEN CHOOSE o \in host.newOptions : TRUE
                          ELSE @]
    /\ host' = [host EXCEPT !.promise = "taken"]
    /\ UNCHANGED <<pc, content, other, options, result, otherResult, again,
                   scanner>>

NextDialog ==
    \/ ShowAdvancedOptionsDialog
    \/ QuickPickAccepted
    \/ QuickPickCancelled
    \/ QuickPickHidden
    \/ AdvancedOptionsSaved
    \/ AdvancedOptionsTaken

SpecDialog == InitDialog /\ [][NextDialog]_vars

(***************************************************************************)
(* What an accepted dialog resolves with                                   *)
(***************************************************************************)
\* C30: once the dialog was accepted its promise is not resolved with
\* undefined, whichever of the hide event and the end of
\* saveAdvancedOptions comes first; and when the command has taken the
\* value of an accepted dialog and nothing is under way, the default options
\* are the options stored under 'advancedOptions'.
C30_AcceptResolvesOptions ==
    host.newOptions # {} =>
        /\ host.promise # "undefined"
        /\ (host.promise = "taken" /\ host.events = {}) =>
               globals.defaultOptions \in host.advancedOptions

=============================================================================
